---- MODULE Spec2Model ----
(***************************************************************************)
(* Pong_8BIT: the match state, the per-frame update of the three roles     *)
(* (SINGLE, HOST, CLIENT), the lifecycle of the PongGame component and the *)
(* messages two instances of it exchange over a PeerJS data connection.    *)
(*                                                                         *)
(* Numbers.  The program computes in IEEE doubles.  The model computes in  *)
(* fixed point with FracBits fractional bits: a value v of the program is  *)
(* the integer v * Scale.  Every constant of the program (7, 0.5, 6.5,     *)
(* 0.75 * 7, ...) is exact at FracBits >= 2.  The two divisions whose      *)
(* results may need more bits (the deflection of a paddle hit and the      *)
(* blend of a snapshot) are rounded toward zero to the grid, as the double *)
(* arithmetic rounds at its own precision.                                 *)
(***************************************************************************)
EXTENDS Integers, Sequences, FiniteSets, TLC

\* ------------------------------------------------------------------ bounds
\* fractional bits of the fixed-point numbers
FracBits == 2

Scale == 2 ^ FracBits

\* a peer renders a frame of a networked match only while at most
\* MaxInFlight - 1 messages are in flight to the other peer
MaxInFlight == 1

\* while two peers run a match, A is at most MaxLead frames ahead of B
MaxLead == 1

\* a CLIENT extrapolates its ball at most one frame beyond MaxDrift units
\* outside the field
MaxDrift == 20

\* the pointer of a player moves while the ball is at most ApproachZone units
\* from the player's edge of the field and comes toward it
ApproachZone == 100

\* the copies of one snapshot a CLIENT handles in a row
MaxRepeat == 3

\* ---------------------------------------------------------------- constants
GAME_WIDTH == 800
GAME_HEIGHT == 600
PADDLE_WIDTH == 15
PADDLE_HEIGHT == 80
BALL_SIZE == 12
WINNING_SCORE == 11
INITIAL_BALL_SPEED == 7
MAX_BALL_SPEED == 14
PADDLE_OFFSET == 35

\* n field units in fixed point
Fx(n) == n * Scale

\* COMPUTER_SPEED = 6.5
COMPUTER_SPEED == (13 * Scale) \div 2

\* the 0.5 by which a paddle hit raises ball.speed
SPEED_STEP == Scale \div 2

\* the dead zone (10) of the computer paddle
AI_DEAD_ZONE == Fx(10)

\* the snap threshold (50) of handleNetworkState
SNAP_DIST == Fx(50)

\* ------------------------------------------------------------------ numbers
Abs(v) == IF v < 0 THEN -v ELSE v

Max(a, b) == IF a > b THEN a ELSE b

Min(a, b) == IF a < b THEN a ELSE b

\* a / b rounded toward zero (b > 0)
TruncDiv(a, b) == IF a >= 0 THEN a \div b ELSE -((-a) \div b)

\* Math.max(0, Math.min(GAME_HEIGHT - PADDLE_HEIGHT, v))
ClampPaddle(v) == Max(0, Min(Fx(GAME_HEIGHT - PADDLE_HEIGHT), v))

\* -------------------------------------------------------------------- names
\* A display name is a sequence of characters.
CPU == <<"C", "P", "U">>

PLAYER_1 == <<"P", "L", "A", "Y", "E", "R", " ", "1">>

WAITING == <<"W", "A", "I", "T", "I", "N", "G", ".", ".", ".">>

\* winner: null
Null == <<"null">>

\* what the user may type into the NICKNAME field
TypedNames == { <<"a", "n", "n">> }

UpperChar == ("a" :> "A") @@ ("n" :> "N")

ToUpperCase(str) ==
  [i \in 1..Len(str) |-> IF str[i] \in DOMAIN UpperChar THEN UpperChar[str[i]] ELSE str[i]]

\* name.toUpperCase().slice(0, 10)
CleanNickname(name) == SubSeq(ToUpperCase(name), 1, Min(Len(name), 10))

\* --------------------------------------------------------------- match state
Peers == {"A", "B"}

Other(p) == IF p = "A" THEN "B" ELSE "A"

\* gameState.current as the component is mounted
InitialGameState ==
  [ x |-> Fx(GAME_WIDTH) \div 2, y |-> Fx(GAME_HEIGHT) \div 2,
    dx |-> Fx(INITIAL_BALL_SPEED), dy |-> Fx(INITIAL_BALL_SPEED),
    speed |-> Fx(INITIAL_BALL_SPEED),
    paddleLeftY |-> Fx(GAME_HEIGHT) \div 2 - Fx(PADDLE_HEIGHT) \div 2,
    paddleRightY |-> Fx(GAME_HEIGHT) \div 2 - Fx(PADDLE_HEIGHT) \div 2,
    scoreLeft |-> 0, scoreRight |-> 0,
    isRunning |-> FALSE, isGameOver |-> FALSE, winner |-> Null, mode |-> "SINGLE" ]

\* the object startGame(mode) assigns to gameState.current; serveLeft is the
\* outcome of Math.random() > 0.5, which is drawn for SINGLE and HOST only
NewGameState(mode, serveLeft) ==
  [ InitialGameState EXCEPT
      !.isRunning = TRUE,
      !.mode = mode,
      !.dx = IF mode # "CLIENT" /\ serveLeft THEN -Fx(INITIAL_BALL_SPEED)
             ELSE Fx(INITIAL_BALL_SPEED) ]

\* ------------------------------------------------------------------ physics
\* a computer paddle that also plays in HOST mode: what C19 rules out
AIControlAnyMode(s) ==
  IF s.mode # "CLIENT"
  THEN LET targetY == s.y - Fx(PADDLE_HEIGHT) \div 2
           moved == IF targetY > s.paddleRightY + AI_DEAD_ZONE
                      THEN s.paddleRightY + COMPUTER_SPEED
                    ELSE IF targetY < s.paddleRightY - AI_DEAD_ZONE
                      THEN s.paddleRightY - COMPUTER_SPEED
                    ELSE s.paddleRightY
       IN [s EXCEPT !.paddleRightY = ClampPaddle(moved)]
  ELSE s

\* SINGLE only: the computer paddle follows the ball
AIControl(s) ==
  IF s.mode = "SINGLE"
  THEN LET targetY == s.y - Fx(PADDLE_HEIGHT) \div 2
           moved == IF targetY > s.paddleRightY + AI_DEAD_ZONE
                      THEN s.paddleRightY + COMPUTER_SPEED
                    ELSE IF targetY < s.paddleRightY - AI_DEAD_ZONE
                      THEN s.paddleRightY - COMPUTER_SPEED
                    ELSE s.paddleRightY
       IN [s EXCEPT !.paddleRightY = ClampPaddle(moved)]
  ELSE s

\* ball.x += ball.dx; ball.y += ball.dy
Integrate(s) == [s EXCEPT !.x = s.x + s.dx, !.y = s.y + s.dy]

HitsWall(s) == s.y <= 0 \/ s.y + Fx(BALL_SIZE) >= Fx(GAME_HEIGHT)

\* a wall collision that turns the ball and leaves it where it is: what C22
\* rules out
WallCollisionUnclamped(s) ==
  IF HitsWall(s) THEN [s EXCEPT !.dy = -s.dy] ELSE s

WallCollision(s) ==
  IF HitsWall(s)
  THEN [s EXCEPT !.dy = -s.dy,
                 !.y = IF s.y <= 0 THEN 0 ELSE Fx(GAME_HEIGHT - BALL_SIZE)]
  ELSE s

\* an overlap test that takes paddle and ball as one unit wide: what C25
\* rules out
OverlapsNarrow(s, px, py) ==
  /\ s.x < px + Fx(1)
  /\ s.x + Fx(1) > px
  /\ s.y < py + Fx(PADDLE_HEIGHT)
  /\ s.y + Fx(BALL_SIZE) > py

\* the overlap test of ballRect against a paddle whose left edge is px, top py
Overlaps(s, px, py) ==
  /\ s.x < px + Fx(PADDLE_WIDTH)
  /\ s.x + Fx(BALL_SIZE) > px
  /\ s.y < py + Fx(PADDLE_HEIGHT)
  /\ s.y + Fx(BALL_SIZE) > py

OverlapsLeft(s) == Overlaps(s, Fx(PADDLE_OFFSET), s.paddleLeftY)

OverlapsRight(s) ==
  Overlaps(s, Fx(GAME_WIDTH - PADDLE_OFFSET - PADDLE_WIDTH), s.paddleRightY)

\* hitPoint: centre of the ball minus centre of the paddle
HitPoint(s, py) ==
  s.y + Fx(BALL_SIZE) \div 2 - (py + Fx(PADDLE_HEIGHT) \div 2)

\* a deflection measured against the whole height of the paddle: what C21
\* rules out
DeflectionByHeight(hitPoint) == TruncDiv(hitPoint * 10, PADDLE_HEIGHT)

\* (hitPoint / (paddle.h / 2)) * 10
Deflection(hitPoint) == TruncDiv(hitPoint * 10, PADDLE_HEIGHT \div 2)

\* a paddle hit that raises ball.speed and leaves the size of dx alone: what
\* C6 rules out
PaddleHitKeepsDx(s, py, dir) ==
  [s EXCEPT !.dy = Deflection(HitPoint(s, py)),
            !.speed = IF s.speed < Fx(MAX_BALL_SPEED) THEN s.speed + SPEED_STEP ELSE s.speed,
            !.dx = dir * Abs(s.dx)]

\* a paddle hit without the test against MAX_BALL_SPEED: what C7 rules out
PaddleHitUncapped(s, py, dir) ==
  [s EXCEPT !.dy = Deflection(HitPoint(s, py)),
            !.speed = s.speed + SPEED_STEP,
            !.dx = dir * (s.speed + SPEED_STEP)]

\* a paddle hit that at the cap leaves dx as it is: what C24 rules out
PaddleHitKeepsSign(s, py, dir) ==
  LET faster == s.speed < Fx(MAX_BALL_SPEED)
      speed1 == IF faster THEN s.speed + SPEED_STEP ELSE s.speed
  IN [s EXCEPT !.dy = Deflection(HitPoint(s, py)),
               !.speed = speed1,
               !.dx = IF faster THEN dir * speed1 ELSE s.dx]

\* the body of a paddle hit; dir = 1 for the left paddle, -1 for the right
PaddleHit(s, py, dir) ==
  LET faster == s.speed < Fx(MAX_BALL_SPEED)
      speed1 == IF faster THEN s.speed + SPEED_STEP ELSE s.speed
  IN [s EXCEPT !.dy = Deflection(HitPoint(s, py)),
               !.speed = speed1,
               !.dx = IF faster THEN dir * speed1 ELSE dir * Abs(s.dx)]

LeftPaddleCollision(s) ==
  IF OverlapsLeft(s) THEN PaddleHit(s, s.paddleLeftY, 1) ELSE s

RightPaddleCollision(s) ==
  IF OverlapsRight(s) THEN PaddleHit(s, s.paddleRightY, -1) ELSE s

\* a resetBall that serves toward the side that scored: what C20 rules out
ResetBallTowardWinner(s, winnerSide, dirY) ==
  LET directionX == IF winnerSide = "left" THEN -1 ELSE 1
  IN [s EXCEPT !.x = Fx(GAME_WIDTH) \div 2 - Fx(BALL_SIZE) \div 2,
               !.y = Fx(GAME_HEIGHT) \div 2 - Fx(BALL_SIZE) \div 2,
               !.speed = Fx(INITIAL_BALL_SPEED),
               !.dx = directionX * Fx(INITIAL_BALL_SPEED),
               !.dy = dirY * ((Fx(INITIAL_BALL_SPEED) * 3) \div 4)]

\* resetBall(winnerSide); dirY is the outcome of Math.random() > 0.5 ? 1 : -1
\* a resetBall that draws the side of the serve as well: what C37 rules out
ResetBallRandomSide(s, winnerSide, dirY) ==
  [s EXCEPT !.x = Fx(GAME_WIDTH) \div 2 - Fx(BALL_SIZE) \div 2,
            !.y = Fx(GAME_HEIGHT) \div 2 - Fx(BALL_SIZE) \div 2,
            !.speed = Fx(INITIAL_BALL_SPEED),
            !.dx = dirY * Fx(INITIAL_BALL_SPEED),
            !.dy = dirY * ((Fx(INITIAL_BALL_SPEED) * 3) \div 4)]

ResetBall(s, winnerSide, dirY) ==
  LET directionX == IF winnerSide = "left" THEN 1 ELSE -1
  IN [s EXCEPT !.x = Fx(GAME_WIDTH) \div 2 - Fx(BALL_SIZE) \div 2,
               !.y = Fx(GAME_HEIGHT) \div 2 - Fx(BALL_SIZE) \div 2,
               !.speed = Fx(INITIAL_BALL_SPEED),
               !.dx = directionX * Fx(INITIAL_BALL_SPEED),
               !.dy = dirY * ((Fx(INITIAL_BALL_SPEED) * 3) \div 4)]

\* an endGame that leaves isRunning set: what C15 rules out
EndGameStillRunning(s, winnerName) ==
  [s EXCEPT !.isGameOver = TRUE, !.winner = winnerName]

\* an endGame that does not record the winner: what C32 rules out
EndGameNoWinner(s, winnerName) ==
  [s EXCEPT !.isRunning = FALSE, !.isGameOver = TRUE]

\* what endGame(winnerName) writes to gameState.current
EndGame(s, winnerName) ==
  [s EXCEPT !.isRunning = FALSE, !.isGameOver = TRUE, !.winner = winnerName]

\* checkWinCondition as update calls it: nick and remote are the values of
\* localNickname and uiState.remoteNickname that its closure holds
Wins(s) == s.scoreLeft >= WINNING_SCORE \/ s.scoreRight >= WINNING_SCORE

WinnerName(s, nick, remote) ==
  IF s.scoreLeft >= WINNING_SCORE
  THEN (IF s.mode = "CLIENT" THEN remote ELSE nick)
  ELSE (IF s.mode = "CLIENT" THEN nick ELSE remote)

\* a win check that ends the match one point late: what C33 rules out
CheckWinConditionLate(s, nick, remote) ==
  IF s.scoreLeft > WINNING_SCORE \/ s.scoreRight > WINNING_SCORE
  THEN EndGame(s, WinnerName(s, nick, remote))
  ELSE s

CheckWinCondition(s, nick, remote) ==
  IF Wins(s) THEN EndGame(s, WinnerName(s, nick, remote)) ELSE s

ScoresRight(s) == s.x < 0

ScoresLeft(s) == ~ScoresRight(s) /\ s.x > Fx(GAME_WIDTH)

\* scoring that counts a point twice: what C8 rules out
ScoringTwice(s, dirY, nick, remote) ==
  IF ScoresRight(s)
  THEN ResetBall(CheckWinCondition([s EXCEPT !.scoreRight = s.scoreRight + 2],
                                   nick, remote), "right", dirY)
  ELSE IF ScoresLeft(s)
  THEN ResetBall(CheckWinCondition([s EXCEPT !.scoreLeft = s.scoreLeft + 2],
                                   nick, remote), "left", dirY)
  ELSE s

\* scoring that counts the point and leaves the ball where it is: what C34
\* rules out
ScoringNoServe(s, dirY, nick, remote) ==
  IF ScoresRight(s)
  THEN CheckWinCondition([s EXCEPT !.scoreRight = s.scoreRight + 1], nick, remote)
  ELSE IF ScoresLeft(s)
  THEN CheckWinCondition([s EXCEPT !.scoreLeft = s.scoreLeft + 1], nick, remote)
  ELSE s

Scoring(s, dirY, nick, remote) ==
  IF ScoresRight(s)
  THEN ResetBall(CheckWinCondition([s EXCEPT !.scoreRight = s.scoreRight + 1],
                                   nick, remote), "right", dirY)
  ELSE IF ScoresLeft(s)
  THEN ResetBall(CheckWinCondition([s EXCEPT !.scoreLeft = s.scoreLeft + 1],
                                   nick, remote), "left", dirY)
  ELSE s

\* the ball after integration and wall collision
Moved(s) == WallCollision(Integrate(AIControl(s)))

\* the ball after the paddle collisions
Collided(s) == RightPaddleCollision(LeftPaddleCollision(Moved(s)))

\* update() of SINGLE and HOST while the match runs
AuthoritativeUpdate(s, dirY, nick, remote) == Scoring(Collided(s), dirY, nick, remote)

\* a CLIENT branch that also bounces the ball off the walls: what C5 rules out
ClientUpdateBouncing(s) == WallCollision(Integrate(s))

\* update() of CLIENT while the match runs
ClientUpdate(s) == Integrate(s)

\* an update() without its first line, which runs whatever the flags are: what
\* C27 rules out
UpdateUngated(s, dirY, nick, remote) ==
  IF s.mode = "CLIENT" THEN ClientUpdate(s)
  ELSE AuthoritativeUpdate(s, dirY, nick, remote)

\* update(): the state it leaves in gameState.current
Update(s, dirY, nick, remote) ==
  IF ~s.isRunning \/ s.isGameOver THEN s
  ELSE IF s.mode = "CLIENT" THEN ClientUpdate(s)
  ELSE AuthoritativeUpdate(s, dirY, nick, remote)

\* -------------------------------------------------------------------- state
VARIABLES
  gameState,      \* [Peers -> gameState.current]
  uiState,        \* [Peers -> the fields of uiState the lifecycle uses]
  localNickname,  \* [Peers -> localNickname as the latest render sees it]
  loopNickname,   \* [Peers -> localNickname as the closure of loop holds it]
  peerNickname,   \* [Peers -> localNickname as the handlers of startHost/joinGame hold it]
  peerRef,        \* [Peers -> "null" | "pending" | "open" | "destroyed"]
  peerRole,       \* [Peers -> "none" | "host" | "join"]: whose handlers peerRef carries
  connRef,        \* [Peers -> "null" | "cur" | "old"]
  connOpen,       \* [Peers -> the open flag of the peer's end of the latest connection]
  link,           \* the latest connection: "none" | "offered" | "accepted" | "down"
  chan,           \* [Peers -> messages in flight to the peer]
  lead            \* frames rendered by A minus frames rendered by B in the running match

vars == << gameState, uiState, localNickname, loopNickname, peerNickname,
           peerRef, peerRole, connRef, connOpen, link, chan, lead >>

\* uiState as useState initialises it
InitialUiState ==
  [ gameStatus |-> "MENU", winnerName |-> Null, remoteNickname |-> CPU,
    connectionStatus |-> "", joinId |-> "" ]

\* uiState.remoteNickname as the closure of loop holds it: the first render's
LoopRemoteNickname == InitialUiState.remoteNickname

Init ==
  /\ gameState = [p \in Peers |-> InitialGameState]
  /\ uiState = [p \in Peers |-> InitialUiState]
  /\ localNickname = [p \in Peers |-> PLAYER_1]
  /\ loopNickname = [p \in Peers |-> PLAYER_1]
  /\ peerNickname = [p \in Peers |-> PLAYER_1]
  /\ peerRef = [p \in Peers |-> "null"]
  /\ peerRole = [p \in Peers |-> "none"]
  /\ connRef = [p \in Peers |-> "null"]
  /\ connOpen = [p \in Peers |-> FALSE]
  /\ link = "none"
  /\ chan = [p \in Peers |-> << >>]
  /\ lead = 0

\* getScoreboardData(): the names the scoreboard shows for the two sides
LeftName(p) ==
  IF gameState[p].mode = "CLIENT" THEN uiState[p].remoteNickname ELSE localNickname[p]

RightName(p) ==
  IF gameState[p].mode = "CLIENT" THEN localNickname[p] ELSE uiState[p].remoteNickname

\* ---------------------------------------------------------------- transport
\* connRef.current && connRef.current.open
ConnIsOpen(p) == connRef[p] = "cur" /\ connOpen[p]

\* a channel that hands over the newest messages first: what C31 rules out
SentUnordered(p, msgs) ==
  IF link = "accepted" /\ connRef[p] = "cur"
  THEN [chan EXCEPT ![Other(p)] = msgs \o chan[Other(p)]]
  ELSE chan

\* conn.send(msgs) at p: the messages reach the other end while the connection lives
Sent(p, msgs) ==
  IF link = "accepted" /\ connRef[p] = "cur"
  THEN [chan EXCEPT ![Other(p)] = chan[Other(p)] \o msgs]
  ELSE chan

NicknameMsg(name) == [type |-> "NICKNAME", name |-> name]

InputMsg(y) == [type |-> "INPUT", y |-> y]

SoundMsg(sound) == [type |-> "SOUND", sound |-> sound]

OverMsg(winner) == [type |-> "OVER", winner |-> winner]

\* the NetworkState sendHostUpdate builds from gameState.current
NetworkState(s) ==
  [ ball |-> [x |-> s.x, y |-> s.y, dx |-> s.dx, dy |-> s.dy, speed |-> s.speed],
    pLeft |-> s.paddleLeftY, pRight |-> s.paddleRightY,
    sLeft |-> s.scoreLeft, sRight |-> s.scoreRight ]

StateMsg(s) == [type |-> "STATE", state |-> NetworkState(s)]

\* ------------------------------------------------------- messages of a frame
\* the sounds update() raises through sendSound, in the order it raises them
TickSounds(s) ==
  LET m == Moved(s)
      c == Collided(s)
  IN (IF HitsWall(Integrate(AIControl(s))) THEN <<"WALL_HIT">> ELSE << >>)
     \o (IF OverlapsLeft(m) THEN <<"PADDLE_HIT">> ELSE << >>)
     \o (IF OverlapsRight(LeftPaddleCollision(m)) THEN <<"PADDLE_HIT">> ELSE << >>)
     \o (IF ScoresRight(c) THEN <<"SCORE_ENEMY">>
         ELSE IF ScoresLeft(c) THEN <<"SCORE_PLAYER">> ELSE << >>)

\* a sendSound that does not look at the mode: what C11 rules out
SoundMessagesAnyMode(mode, sounds, open) ==
  IF open THEN [i \in 1..Len(sounds) |-> SoundMsg(sounds[i])] ELSE << >>

\* sendSound(type) for each sound: sent in HOST mode over an open connection
SoundMessages(mode, sounds, open) ==
  IF mode = "HOST" /\ open
  THEN [i \in 1..Len(sounds) |-> SoundMsg(sounds[i])]
  ELSE << >>

\* the OVER message of endGame: sent in HOST mode when connRef.current is set
OverMessages(mode, winnerName, hasConn) ==
  IF mode = "HOST" /\ hasConn THEN <<OverMsg(winnerName)>> ELSE << >>

\* sendHostUpdate(): the snapshot of the state update() leaves
HostUpdateMessages(after, open) ==
  IF open THEN <<StateMsg(after)>> ELSE << >>

\* a sendClientInput that sends the other paddle: what C10 rules out
ClientInputMessagesLeft(s, open) ==
  IF open THEN <<InputMsg(s.paddleLeftY)>> ELSE << >>

\* sendClientInput()
ClientInputMessages(s, open) ==
  IF open THEN <<InputMsg(s.paddleRightY)>> ELSE << >>

\* an update() that takes the snapshot before it moves the ball: what C9
\* rules out
UpdateMessagesStale(s, after, open, hasConn) ==
  IF ~s.isRunning \/ s.isGameOver THEN << >>
  ELSE IF s.mode = "CLIENT" THEN ClientInputMessages(after, open)
  ELSE SoundMessages(s.mode, TickSounds(s), open)
       \o (IF after.isGameOver THEN OverMessages(s.mode, after.winner, hasConn) ELSE << >>)
       \o (IF s.mode = "HOST" THEN HostUpdateMessages(s, open) ELSE << >>)

\* an update() that sends OVER after the snapshot of the tick: what C28 rules
\* out
UpdateMessagesOverLast(s, after, open, hasConn) ==
  IF ~s.isRunning \/ s.isGameOver THEN << >>
  ELSE IF s.mode = "CLIENT" THEN ClientInputMessages(after, open)
  ELSE SoundMessages(s.mode, TickSounds(s), open)
       \o (IF s.mode = "HOST" THEN HostUpdateMessages(after, open) ELSE << >>)
       \o (IF after.isGameOver THEN OverMessages(s.mode, after.winner, hasConn) ELSE << >>)

\* what update() passes to conn.send, in order; after is the state it leaves
UpdateMessages(s, after, open, hasConn) ==
  IF ~s.isRunning \/ s.isGameOver THEN << >>
  ELSE IF s.mode = "CLIENT" THEN ClientInputMessages(after, open)
  ELSE SoundMessages(s.mode, TickSounds(s), open)
       \o (IF after.isGameOver THEN OverMessages(s.mode, after.winner, hasConn) ELSE << >>)
       \o (IF s.mode = "HOST" THEN HostUpdateMessages(after, open) ELSE << >>)

\* ------------------------------------------------------------ reconciliation
\* a snap test that takes a distance of exactly 50 as far: what C12 rules out
FarOrEqual(s, n) ==
  (s.x - n.ball.x) * (s.x - n.ball.x) + (s.y - n.ball.y) * (s.y - n.ball.y)
    >= SNAP_DIST * SNAP_DIST

\* dist > 50 in handleNetworkState
Far(s, n) ==
  (s.x - n.ball.x) * (s.x - n.ball.x) + (s.y - n.ball.y) * (s.y - n.ball.y)
    > SNAP_DIST * SNAP_DIST

\* a blend with factor 1.5, which goes past the target: what C13 rules out
BlendOvershoot(v, target) == v + TruncDiv((target - v) * 3, 2)

\* v += (target - v) * 0.5
Blend(v, target) == v + TruncDiv(target - v, 2)

\* a handleNetworkState that smooths the paddle of the HOST as it smooths the
\* ball: what C14 rules out
HandleNetworkStateSmoothPaddle(s, n) ==
  [s EXCEPT !.scoreLeft = n.sLeft,
            !.scoreRight = n.sRight,
            !.paddleLeftY = Blend(s.paddleLeftY, n.pLeft),
            !.x = IF Far(s, n) THEN n.ball.x ELSE Blend(s.x, n.ball.x),
            !.y = IF Far(s, n) THEN n.ball.y ELSE Blend(s.y, n.ball.y),
            !.dx = n.ball.dx,
            !.dy = n.ball.dy]

\* a handleNetworkState that leaves the scores of a finished match alone: what
\* C29 rules out
HandleNetworkStateUntilOver(s, n) ==
  [s EXCEPT !.scoreLeft = IF s.isGameOver THEN s.scoreLeft ELSE n.sLeft,
            !.scoreRight = IF s.isGameOver THEN s.scoreRight ELSE n.sRight,
            !.paddleLeftY = n.pLeft,
            !.x = IF Far(s, n) THEN n.ball.x ELSE Blend(s.x, n.ball.x),
            !.y = IF Far(s, n) THEN n.ball.y ELSE Blend(s.y, n.ball.y),
            !.dx = n.ball.dx,
            !.dy = n.ball.dy]

\* a handleNetworkState that also takes the right paddle of the snapshot:
\* what C35 rules out
HandleNetworkStateBothPaddles(s, n) ==
  [s EXCEPT !.scoreLeft = n.sLeft,
            !.scoreRight = n.sRight,
            !.paddleLeftY = n.pLeft,
            !.paddleRightY = n.pRight,
            !.x = IF Far(s, n) THEN n.ball.x ELSE Blend(s.x, n.ball.x),
            !.y = IF Far(s, n) THEN n.ball.y ELSE Blend(s.y, n.ball.y),
            !.dx = n.ball.dx,
            !.dy = n.ball.dy]

HandleNetworkState(s, n) ==
  [s EXCEPT !.scoreLeft = n.sLeft,
            !.scoreRight = n.sRight,
            !.paddleLeftY = n.pLeft,
            !.x = IF Far(s, n) THEN n.ball.x ELSE Blend(s.x, n.ball.x),
            !.y = IF Far(s, n) THEN n.ball.y ELSE Blend(s.y, n.ball.y),
            !.dx = n.ball.dx,
            !.dy = n.ball.dy]

\* ---------------------------------------------------------------- scheduling
Running(s) == s.isRunning /\ ~s.isGameOver

\* both peers run the same networked match
Paired(gs) ==
  \A p \in Peers : Running(gs[p]) /\ gs[p].mode \in {"HOST", "CLIENT"}

FrameSign(p) == IF p = "A" THEN 1 ELSE -1

InView(s) ==
  /\ s.x >= -Fx(MaxDrift) /\ s.x <= Fx(GAME_WIDTH + MaxDrift)
  /\ s.y >= -Fx(MaxDrift) /\ s.y <= Fx(GAME_HEIGHT + MaxDrift)

IsFrameMessage(m) == m.type # "NICKNAME"

\* the messages in flight to q that the frames of a match sent
InFlight(q) == Len(SelectSeq(chan[q], IsFrameMessage))

\* The frames the model follows.  While both peers run a match their frames
\* alternate, A first, with A at most MaxLead frames ahead; a frame of a
\* networked match is rendered when the messages of the frames before have
\* been handled, at most MaxInFlight - 1 still being in flight to the other
\* peer; a CLIENT extrapolates only a ball that is in view.  The messages of
\* the handshake do not hold a frame back.
Frame(p) ==
  LET s == gameState[p]
  IN (Running(s) /\ s.mode # "SINGLE") =>
       /\ Paired(gameState) => (lead + FrameSign(p) >= 0 /\ lead + FrameSign(p) <= MaxLead)
       /\ InFlight(p) = 0
       /\ InFlight(Other(p)) < MaxInFlight
       /\ s.mode = "CLIENT" => InView(s)

\* -------------------------------------------------------------- PeerJS peers
\* peer.destroy() at p closes p's end of the connection and ends the connection
Destroys(p) == peerRef[p] \in {"pending", "open"}

LinkAfterDestroy(p) ==
  IF Destroys(p) /\ link \in {"offered", "accepted"} THEN "down" ELSE link

ConnOpenAfterDestroy(p) ==
  IF Destroys(p) THEN [connOpen EXCEPT ![p] = FALSE] ELSE connOpen

ChanAfterDestroy(p) ==
  IF Destroys(p) THEN [chan EXCEPT ![p] = << >>] ELSE chan

\* if (peerRef.current) peerRef.current.destroy()
DestroyPeer(p) ==
  /\ peerRef' = [peerRef EXCEPT ![p] = IF @ = "null" THEN "null" ELSE "destroyed"]
  /\ link' = LinkAfterDestroy(p)
  /\ connOpen' = ConnOpenAfterDestroy(p)
  /\ chan' = ChanAfterDestroy(p)

\* initPeer(): destroys the peer at hand and creates one, which is not yet open
InitPeer(p) ==
  /\ peerRef' = [peerRef EXCEPT ![p] = "pending"]
  /\ link' = LinkAfterDestroy(p)
  /\ connOpen' = ConnOpenAfterDestroy(p)
  /\ chan' = ChanAfterDestroy(p)

\* ------------------------------------------------------------------- actions
\* what startGame(mode) writes to uiState
StartGameUi(u, mode) ==
  [u EXCEPT !.remoteNickname = IF mode = "SINGLE" THEN CPU ELSE @,
            !.gameStatus = "PLAYING",
            !.winnerName = Null]

\* what endGame(winnerName) writes to uiState
EndGameUi(u, winnerName) ==
  [u EXCEPT !.gameStatus = "GAME_OVER", !.winnerName = winnerName]

\* the NICKNAME field of the menu: updateNickname(e.target.value)
UpdateNickname(p, typed) ==
  /\ uiState[p].gameStatus = "MENU"
  /\ localNickname' = [localNickname EXCEPT ![p] = CleanNickname(typed)]
  /\ UNCHANGED << gameState, uiState, loopNickname, peerNickname, peerRef, peerRole,
                  connRef, connOpen, link, chan, lead >>

\* the button 1 PLAYER: startGame('SINGLE')
StartSingle(p) ==
  /\ uiState[p].gameStatus = "MENU"
  /\ \E serveLeft \in BOOLEAN :
       gameState' = [gameState EXCEPT ![p] = NewGameState("SINGLE", serveLeft)]
  /\ uiState' = [uiState EXCEPT ![p] = StartGameUi(@, "SINGLE")]
  /\ lead' = 0
  /\ UNCHANGED << localNickname, loopNickname, peerNickname, peerRef, peerRole,
                  connRef, connOpen, link, chan >>

\* the button CREATE MATCH: startHost()
StartHost(p) ==
  /\ uiState[p].gameStatus = "MENU"
  /\ uiState' = [uiState EXCEPT ![p].gameStatus = "HOST_WAIT",
                                ![p].connectionStatus = "Creating Room...",
                                ![p].remoteNickname = WAITING]
  /\ InitPeer(p)
  /\ peerRole' = [peerRole EXCEPT ![p] = "host"]
  /\ peerNickname' = [peerNickname EXCEPT ![p] = localNickname[p]]
  /\ UNCHANGED << gameState, localNickname, loopNickname, connRef, lead >>

\* the button CANCEL of HOST_WAIT
CancelHost(p) ==
  /\ uiState[p].gameStatus = "HOST_WAIT"
  /\ DestroyPeer(p)
  /\ uiState' = [uiState EXCEPT ![p].gameStatus = "MENU"]
  /\ UNCHANGED << gameState, localNickname, loopNickname, peerNickname, peerRole,
                  connRef, lead >>

\* the button JOIN MATCH
OpenJoin(p) ==
  /\ uiState[p].gameStatus = "MENU"
  /\ uiState' = [uiState EXCEPT ![p].gameStatus = "JOIN_INPUT"]
  /\ UNCHANGED << gameState, localNickname, loopNickname, peerNickname, peerRef,
                  peerRole, connRef, connOpen, link, chan, lead >>

\* the MATCH ID field of JOIN_INPUT
TypeJoinId(p, id) ==
  /\ uiState[p].gameStatus = "JOIN_INPUT"
  /\ uiState' = [uiState EXCEPT ![p].joinId = id]
  /\ UNCHANGED << gameState, localNickname, loopNickname, peerNickname, peerRef,
                  peerRole, connRef, connOpen, link, chan, lead >>

\* the button CONNECT: joinGame()
JoinGame(p) ==
  /\ uiState[p].gameStatus = "JOIN_INPUT"
  /\ uiState[p].joinId # ""
  /\ uiState' = [uiState EXCEPT ![p].connectionStatus = "Connecting..."]
  /\ InitPeer(p)
  /\ peerRole' = [peerRole EXCEPT ![p] = "join"]
  /\ peerNickname' = [peerNickname EXCEPT ![p] = localNickname[p]]
  /\ UNCHANGED << gameState, localNickname, loopNickname, connRef, lead >>

\* the button BACK of JOIN_INPUT
Back(p) ==
  /\ uiState[p].gameStatus = "JOIN_INPUT"
  /\ uiState' = [uiState EXCEPT ![p].gameStatus = "MENU"]
  /\ UNCHANGED << gameState, localNickname, loopNickname, peerNickname, peerRef,
                  peerRole, connRef, connOpen, link, chan, lead >>

\* the button MAIN MENU of GAME_OVER
MainMenu(p) ==
  /\ uiState[p].gameStatus = "GAME_OVER"
  /\ DestroyPeer(p)
  /\ uiState' = [uiState EXCEPT ![p].gameStatus = "MENU"]
  /\ UNCHANGED << gameState, localNickname, loopNickname, peerNickname, peerRole,
                  connRef, lead >>

\* peer.on('open') of startHost and of joinGame
PeerOpen(p) ==
  /\ peerRef[p] = "pending"
  /\ peerRef' = [peerRef EXCEPT ![p] = "open"]
  /\ IF peerRole[p] = "host"
     THEN /\ uiState' = [uiState EXCEPT ![p].connectionStatus = "Waiting for player..."]
          /\ UNCHANGED << connRef, connOpen, link, chan >>
     ELSE \* conn = peer.connect(uiState.joinId); connRef.current = conn
          /\ connRef' = [q \in Peers |->
                           IF q = p THEN "cur"
                           ELSE IF connRef[q] = "cur" THEN "old" ELSE connRef[q]]
          /\ connOpen' = [q \in Peers |-> FALSE]
          /\ chan' = [q \in Peers |-> << >>]
          /\ link' = IF peerRole[Other(p)] = "host" /\ peerRef[Other(p)] = "open"
                     THEN "offered" ELSE "down"
          /\ UNCHANGED uiState
  /\ UNCHANGED << gameState, localNickname, loopNickname, peerNickname, peerRole, lead >>

\* peer.on('connection') of startHost
HostConnection(p) ==
  /\ peerRole[p] = "host"
  /\ peerRef[p] = "open"
  /\ link = "offered"
  /\ connRef' = [connRef EXCEPT ![p] = "cur"]
  /\ link' = "accepted"
  /\ uiState' = [uiState EXCEPT ![p].connectionStatus = "Connected! Handshaking..."]
  /\ UNCHANGED << gameState, localNickname, loopNickname, peerNickname, peerRef,
                  peerRole, connOpen, chan, lead >>

\* a conn.on('open') that starts the match as soon as the connection opens:
\* what C2 rules out
ConnOpenStartsMatch(p) ==
  /\ link = "accepted"
  /\ connRef[p] = "cur"
  /\ ~connOpen[p]
  /\ connOpen' = [connOpen EXCEPT ![p] = TRUE]
  /\ chan' = Sent(p, <<NicknameMsg(peerNickname[p])>>)
  /\ gameState' = [gameState EXCEPT
                     ![p] = NewGameState(IF peerRole[p] = "host" THEN "HOST" ELSE "CLIENT",
                                         FALSE)]
  /\ uiState' = [uiState EXCEPT ![p] = StartGameUi(@, gameState'[p].mode)]
  /\ lead' = 0
  /\ UNCHANGED << localNickname, loopNickname, peerNickname, peerRef,
                  peerRole, connRef, link >>

\* conn.on('open') of startHost and of joinGame: send our nickname
ConnOpen(p) ==
  /\ link = "accepted"
  /\ connRef[p] = "cur"
  /\ ~connOpen[p]
  /\ connOpen' = [connOpen EXCEPT ![p] = TRUE]
  /\ chan' = Sent(p, <<NicknameMsg(peerNickname[p])>>)
  /\ uiState' = IF peerRole[p] = "join"
                THEN [uiState EXCEPT ![p].connectionStatus = "Connected! Handshaking..."]
                ELSE uiState
  /\ UNCHANGED << gameState, localNickname, loopNickname, peerNickname, peerRef,
                  peerRole, connRef, link, lead >>

\* the other end has gone: the connection closes at p
CloseNotice(p) ==
  /\ link = "down"
  /\ ConnIsOpen(p)
  /\ connOpen' = [connOpen EXCEPT ![p] = FALSE]
  /\ chan' = [chan EXCEPT ![p] = << >>]
  /\ UNCHANGED << gameState, uiState, localNickname, loopNickname, peerNickname,
                  peerRef, peerRole, connRef, link, lead >>

\* peer.on('error') of joinGame
PeerError(p) ==
  /\ peerRole[p] = "join"
  /\ peerRef[p] \in {"pending", "open"}
  /\ ~ConnIsOpen(p)
  /\ uiState' = [uiState EXCEPT ![p].connectionStatus = "Error"]
  /\ UNCHANGED << gameState, localNickname, loopNickname, peerNickname, peerRef,
                  peerRole, connRef, connOpen, link, chan, lead >>

\* lead after a step that leaves the match states gs
LeadAfter(gs, l) == IF Paired(gs) THEN l ELSE 0

\* one frame of loop(): update() (draw() reads only)
Tick(p) ==
  /\ \E dirY \in {1, -1} :
       LET s == gameState[p]
           after == Update(s, dirY, loopNickname[p], LoopRemoteNickname)
           ended == Running(s) /\ after.isGameOver
           gs == [gameState EXCEPT ![p] = after]
       IN /\ gameState' = gs
          /\ uiState' = IF ended
                        THEN [uiState EXCEPT ![p] = EndGameUi(@, after.winner)]
                        ELSE uiState
          /\ chan' = Sent(p, UpdateMessages(s, after, ConnIsOpen(p), connRef[p] # "null"))
          /\ lead' = LeadAfter(gs, IF Paired(gameState) THEN lead + FrameSign(p) ELSE lead)
  /\ UNCHANGED << localNickname, loopNickname, peerNickname, peerRef, peerRole,
                  connRef, connOpen, link >>

\* handleInput without Math.max / Math.min: what C1 rules out
PointerPaddleYUnclamped(relativeY) == relativeY - Fx(PADDLE_HEIGHT) \div 2

\* the paddle offset handleInput computes from the pointer; relativeY is
\* (clientY - rect.top) * scaleY
PointerPaddleY(relativeY) == ClampPaddle(relativeY - Fx(PADDLE_HEIGHT) \div 2)

\* a handleInput that moves the left paddle in every role: what C36 rules out
HandleInputLeftOnly(p, relativeY) ==
  /\ ~(~gameState[p].isRunning /\ uiState[p].gameStatus # "PLAYING")
  /\ gameState' = [gameState EXCEPT ![p].paddleLeftY = PointerPaddleY(relativeY)]
  /\ UNCHANGED << uiState, localNickname, loopNickname, peerNickname, peerRef,
                  peerRole, connRef, connOpen, link, chan, lead >>

\* handleInput(clientX, clientY) on mousemove, touchmove and touchstart
HandleInput(p, relativeY) ==
  /\ ~(~gameState[p].isRunning /\ uiState[p].gameStatus # "PLAYING")
  /\ gameState' =
       IF gameState[p].mode = "CLIENT"
       THEN [gameState EXCEPT ![p].paddleRightY = PointerPaddleY(relativeY)]
       ELSE [gameState EXCEPT ![p].paddleLeftY = PointerPaddleY(relativeY)]
  /\ UNCHANGED << uiState, localNickname, loopNickname, peerNickname, peerRef,
                  peerRole, connRef, connOpen, link, chan, lead >>

\* conn.on('data') of startHost
HostData(p, data) ==
  IF data.type = "INPUT"
  THEN /\ gameState' = [gameState EXCEPT ![p].paddleRightY = data.y]
       /\ chan' = [chan EXCEPT ![p] = Tail(@)]
       /\ lead' = lead
       /\ UNCHANGED uiState
  ELSE IF data.type = "NICKNAME"
  THEN \E serveLeft \in BOOLEAN :
         LET gs == [gameState EXCEPT ![p] = NewGameState("HOST", serveLeft)]
         IN /\ gameState' = gs
            /\ uiState' = [uiState EXCEPT
                             ![p] = StartGameUi([@ EXCEPT !.remoteNickname = data.name],
                                                "HOST")]
            /\ chan' = [Sent(p, SoundMessages("HOST", <<"GAME_START">>, ConnIsOpen(p)))
                          EXCEPT ![p] = Tail(@)]
            /\ lead' = 0
  ELSE /\ chan' = [chan EXCEPT ![p] = Tail(@)]
       /\ UNCHANGED << gameState, uiState, lead >>

\* conn.on('data') of joinGame
JoinData(p, data) ==
  /\ chan' = [chan EXCEPT ![p] = Tail(@)]
  /\ IF data.type = "STATE"
     THEN /\ gameState' = [gameState EXCEPT ![p] = HandleNetworkState(@, data.state)]
          /\ lead' = lead
          /\ UNCHANGED uiState
     ELSE IF data.type = "OVER"
     THEN LET gs == [gameState EXCEPT ![p] = EndGame(@, data.winner)]
          IN /\ gameState' = gs
             /\ uiState' = [uiState EXCEPT ![p] = EndGameUi(@, data.winner)]
             /\ lead' = LeadAfter(gs, lead)
     ELSE IF data.type = "NICKNAME"
     THEN /\ gameState' = [gameState EXCEPT ![p] = NewGameState("CLIENT", FALSE)]
          /\ uiState' = [uiState EXCEPT
                           ![p] = StartGameUi([@ EXCEPT !.remoteNickname = data.name],
                                              "CLIENT")]
          /\ lead' = 0
     ELSE UNCHANGED << gameState, uiState, lead >>

\* a message arrives at p
Deliver(p) ==
  /\ ConnIsOpen(p)
  /\ chan[p] # << >>
  /\ IF peerRole[p] = "host" THEN HostData(p, Head(chan[p])) ELSE JoinData(p, Head(chan[p]))
  /\ UNCHANGED << localNickname, loopNickname, peerNickname, peerRef, peerRole,
                  connRef, connOpen, link >>

\* ------------------------------------------------------------ specifications
\* where the pointer of a player may be: 600 is below the lowest position a
\* paddle can take, so handleInput has to clamp it
Pointers(p) ==
  IF gameState[p].mode = "SINGLE" THEN {Fx(100), Fx(600)}
  ELSE IF p = "A" THEN {Fx(100)} ELSE {Fx(600)}

\* the ball comes toward the paddle of p and is at most ApproachZone from its edge
\* of the field: the frames in which the model moves the pointer of p
Approaching(p) ==
  LET s == gameState[p]
  IN IF s.mode = "CLIENT"
     THEN s.dx > 0 /\ s.x > Fx(GAME_WIDTH - ApproachZone)
     ELSE s.dx < 0 /\ s.x < Fx(ApproachZone)

PointerMove(p) == Approaching(p) /\ \E y \in Pointers(p) : HandleInput(p, y)

\* one instance playing alone
NextSingle ==
  \/ \E typed \in TypedNames : UpdateNickname("A", typed)
  \/ StartSingle("A")
  \/ Tick("A")
  \/ PointerMove("A")
  \/ MainMenu("A")

SpecSingle == Init /\ [][NextSingle]_vars

\* the pointer follows the ball
RallyPointers(p) == {gameState[p].y + Fx(BALL_SIZE) \div 2}

RallyMove(p) == Approaching(p) /\ \E y \in RallyPointers(p) : HandleInput(p, y)

\* a pointer event precedes each frame in which the ball approaches
RallyFrame(p) ==
  Approaching(p) =>
    gameState[p].paddleLeftY \in {PointerPaddleY(y) : y \in RallyPointers(p)}

\* one instance playing alone, the player returning every ball: the rallies
\* last until the computer paddle misses
NextRally ==
  \/ StartSingle("A")
  \/ RallyFrame("A") /\ Tick("A")
  \/ RallyMove("A")

SpecRally == Init /\ [][NextRally]_vars

\* A hosts, B joins; B presses CONNECT only while it holds no live peer
Next ==
  \/ \E typed \in TypedNames : UpdateNickname("A", typed)
  \/ StartHost("A")
  \/ CancelHost("A")
  \/ OpenJoin("B")
  \/ TypeJoinId("B", "ROOM")
  \/ peerRef["B"] \in {"null", "destroyed"} /\ JoinGame("B")
  \/ Back("B")
  \/ \E p \in Peers : MainMenu(p)
  \/ \E p \in Peers : PeerOpen(p)
  \/ HostConnection("A")
  \/ \E p \in Peers : ConnOpen(p)
  \/ \E p \in Peers : CloseNotice(p)
  \/ PeerError("B")
  \/ \E p \in Peers : Deliver(p)
  \/ \E p \in Peers : Frame(p) /\ Tick(p)
  \/ \E p \in Peers : PointerMove(p)

Spec == Init /\ [][Next]_vars

\* B leaves the join screen by BACK, which keeps its peer, and plays alone;
\* B keeps its pointer still; the frames of A and the messages in flight to A
\* are not followed
NextSolo ==
  \/ StartHost("A")
  \/ \E p \in Peers : PeerOpen(p)
  \/ HostConnection("A")
  \/ \E p \in Peers : ConnOpen(p)
  \/ OpenJoin("B")
  \/ TypeJoinId("B", "ROOM")
  \/ peerRef["B"] = "null" /\ JoinGame("B")
  \/ Back("B")
  \/ StartSingle("B")
  \/ Frame("B") /\ Tick("B")
  \/ MainMenu("B")
  \/ Deliver("B")

SpecSolo == Init /\ [][NextSolo]_vars

\* handleNetworkState as a function: a CLIENT whose ball is off the ball of
\* the snapshot by an offset of SnapshotOffsets on each axis handles MaxRepeat
\* copies of the snapshot
SnapshotOffsets ==
  {-Fx(51), -Fx(50), -Fx(40), -Fx(30), -5, -1, 0, 1, 6, Fx(30), Fx(40), Fx(50), Fx(51)}

\* the state of the HOST the snapshot is taken of
SnapshotHost ==
  [NewGameState("HOST", TRUE) EXCEPT
     !.x = Fx(300), !.y = Fx(200), !.dy = -Fx(3), !.paddleLeftY = Fx(60),
     !.paddleRightY = Fx(520), !.scoreLeft = 2, !.scoreRight = 1]

InitSnapshot ==
  /\ \E ox \in SnapshotOffsets, oy \in SnapshotOffsets :
       gameState = [p \in Peers |->
                      IF p = "A" THEN SnapshotHost
                      ELSE [NewGameState("CLIENT", FALSE) EXCEPT
                              !.x = SnapshotHost.x + ox, !.y = SnapshotHost.y + oy,
                              !.paddleRightY = Fx(520)]]
  /\ uiState = [p \in Peers |->
                  [InitialUiState EXCEPT !.gameStatus = "PLAYING",
                                         !.remoteNickname = PLAYER_1]]
  /\ localNickname = [p \in Peers |-> PLAYER_1]
  /\ loopNickname = [p \in Peers |-> PLAYER_1]
  /\ peerNickname = [p \in Peers |-> PLAYER_1]
  /\ peerRef = [p \in Peers |-> "open"]
  /\ peerRole = [p \in Peers |-> IF p = "A" THEN "host" ELSE "join"]
  /\ connRef = [p \in Peers |-> "cur"]
  /\ connOpen = [p \in Peers |-> TRUE]
  /\ link = "accepted"
  /\ chan = [p \in Peers |->
               IF p = "B" THEN [i \in 1..MaxRepeat |-> StateMsg(SnapshotHost)]
               ELSE << >>]
  /\ lead = 0

NextSnapshot == Deliver("B")

SpecSnapshot == InitSnapshot /\ [][NextSnapshot]_vars

\* update() at the highest speed next to a paddle that stands still: a SINGLE
\* match whose ball, at |dx| = MAX_BALL_SPEED and dy = 0, is level with the
\* paddle it flies toward and at most TunnelReach beyond one frame's flight
\* from it.  The left paddle stands still for want of pointer events, the
\* right one because the ball is inside its dead zone.
TunnelReach == 4

\* the offsets of the ball from the top of the left paddle: barely level with
\* its top, level with its centre, barely level with its bottom
TunnelLevels == {1 - Fx(BALL_SIZE), Fx(PADDLE_HEIGHT) \div 2, Fx(PADDLE_HEIGHT) - 1}

\* the distances of the ball from the face of the paddle
TunnelGaps == 0 .. Fx(MAX_BALL_SPEED + TunnelReach)

TunnelStart(side, gap, level) ==
  IF side = "left"
  THEN [NewGameState("SINGLE", TRUE) EXCEPT
          !.speed = Fx(MAX_BALL_SPEED), !.dx = -Fx(MAX_BALL_SPEED), !.dy = 0,
          !.x = Fx(PADDLE_OFFSET + PADDLE_WIDTH) + gap,
          !.y = InitialGameState.paddleLeftY + level]
  ELSE [NewGameState("SINGLE", FALSE) EXCEPT
          !.speed = Fx(MAX_BALL_SPEED), !.dx = Fx(MAX_BALL_SPEED), !.dy = 0,
          !.x = Fx(GAME_WIDTH - PADDLE_OFFSET - PADDLE_WIDTH - BALL_SIZE) - gap,
          !.y = InitialGameState.paddleRightY + Fx(PADDLE_HEIGHT) \div 2]

InitTunnel ==
  /\ \E side \in {"left", "right"}, gap \in TunnelGaps, level \in TunnelLevels :
       gameState = [p \in Peers |->
                      IF p = "A" THEN TunnelStart(side, gap, level) ELSE InitialGameState]
  /\ uiState = [p \in Peers |->
                  IF p = "A" THEN StartGameUi(InitialUiState, "SINGLE") ELSE InitialUiState]
  /\ localNickname = [p \in Peers |-> PLAYER_1]
  /\ loopNickname = [p \in Peers |-> PLAYER_1]
  /\ peerNickname = [p \in Peers |-> PLAYER_1]
  /\ peerRef = [p \in Peers |-> "null"]
  /\ peerRole = [p \in Peers |-> "none"]
  /\ connRef = [p \in Peers |-> "null"]
  /\ connOpen = [p \in Peers |-> FALSE]
  /\ link = "none"
  /\ chan = [p \in Peers |-> << >>]
  /\ lead = 0

\* the frames that take the ball to the paddle and past or off it
NearPaddle(s) ==
  \/ s.dx < 0 /\ s.x + Fx(BALL_SIZE) > 0
  \/ s.dx > 0 /\ s.x < Fx(PADDLE_OFFSET + PADDLE_WIDTH + MAX_BALL_SPEED + TunnelReach)
  \/ s.dx > 0 /\ s.x > Fx(GAME_WIDTH - PADDLE_OFFSET - PADDLE_WIDTH - BALL_SIZE
                           - MAX_BALL_SPEED - TunnelReach)
               /\ s.x < Fx(GAME_WIDTH)

NextTunnel == NearPaddle(gameState["A"]) /\ Tick("A")

SpecTunnel == InitTunnel /\ [][NextTunnel]_vars

\* loop() asks for the next frame at the end of every frame: the frames go on
\* for as long as the ball is near a paddle
SpecTunnelFair == SpecTunnel /\ WF_vars(NextTunnel)

\* update() of the HOST next to the left paddle, the walls and the left edge:
\* one frame of a HOST whose ball flies to the left from at most EventReach
\* units off the edge, toward the nearer wall from EventLevels, whose paddle
\* is at the top or in the middle and whose opponent has no point or lacks
\* one; the CLIENT then handles the messages of the frame.
EventReach == 60

EventLevels == {Fx(2), Fx(GAME_HEIGHT) \div 2, Fx(GAME_HEIGHT - BALL_SIZE - 2)}

EventHost(x, y, pLeft, sRight) ==
  [NewGameState("HOST", TRUE) EXCEPT
     !.x = x, !.y = y,
     !.dy = IF y < Fx(GAME_HEIGHT) \div 2 THEN -Fx(INITIAL_BALL_SPEED)
            ELSE Fx(INITIAL_BALL_SPEED),
     !.paddleLeftY = pLeft, !.scoreRight = sRight]

InitEvents ==
  /\ \E k \in 0..EventReach, y \in EventLevels,
        pLeft \in {0, InitialGameState.paddleLeftY},
        sRight \in {0, WINNING_SCORE - 1} :
       gameState = [p \in Peers |->
                      IF p = "A" THEN EventHost(Fx(k), y, pLeft, sRight)
                      ELSE [NewGameState("CLIENT", FALSE) EXCEPT
                              !.x = Fx(k), !.y = y, !.dx = -Fx(INITIAL_BALL_SPEED),
                              !.paddleLeftY = pLeft, !.scoreRight = sRight]]
  /\ uiState = [p \in Peers |->
                  [InitialUiState EXCEPT !.gameStatus = "PLAYING",
                                         !.remoteNickname = PLAYER_1]]
  /\ localNickname = [p \in Peers |-> PLAYER_1]
  /\ loopNickname = [p \in Peers |-> PLAYER_1]
  /\ peerNickname = [p \in Peers |-> PLAYER_1]
  /\ peerRef = [p \in Peers |-> "open"]
  /\ peerRole = [p \in Peers |-> IF p = "A" THEN "host" ELSE "join"]
  /\ connRef = [p \in Peers |-> "cur"]
  /\ connOpen = [p \in Peers |-> TRUE]
  /\ link = "accepted"
  /\ chan = [p \in Peers |-> << >>]
  /\ lead = 0

NextEvents ==
  \/ gameState["A"] \in {EventHost(Fx(k), y, pLeft, sRight) :
                            k \in 0..EventReach, y \in EventLevels,
                            pLeft \in {0, InitialGameState.paddleLeftY},
                            sRight \in {0, WINNING_SCORE - 1}}
       /\ chan["B"] = << >> /\ Tick("A")
  \/ Deliver("B")

SpecEvents == InitEvents /\ [][NextEvents]_vars

\* two copies of a HOST, A and B, each with an open connection of its own, are
\* started from the same match state and are given the same pointer inputs,
\* the same INPUT messages and the same serve signs; chan[p] holds what the
\* copy p has sent in its last frame
TwinReach == 40

TwinLevels == {Fx(2), Fx(GAME_HEIGHT) \div 2}

TwinHost(x, y, sLeft, sRight) ==
  [NewGameState("HOST", TRUE) EXCEPT
     !.x = x, !.y = y,
     !.dy = IF y < Fx(GAME_HEIGHT) \div 2 THEN -Fx(INITIAL_BALL_SPEED)
            ELSE Fx(INITIAL_BALL_SPEED),
     !.scoreLeft = sLeft, !.scoreRight = sRight]

InitTwin ==
  /\ \E k \in 0..TwinReach, y \in TwinLevels,
        sLeft \in {WINNING_SCORE - 1},
        sRight \in {WINNING_SCORE - 2, WINNING_SCORE - 1} :
       gameState = [p \in Peers |-> TwinHost(Fx(k), y, sLeft, sRight)]
  /\ uiState = [p \in Peers |->
                  [InitialUiState EXCEPT !.gameStatus = "PLAYING",
                                         !.remoteNickname = PLAYER_1]]
  /\ localNickname = [p \in Peers |-> PLAYER_1]
  /\ loopNickname = [p \in Peers |-> PLAYER_1]
  /\ peerNickname = [p \in Peers |-> PLAYER_1]
  /\ peerRef = [p \in Peers |-> "open"]
  /\ peerRole = [p \in Peers |-> "host"]
  /\ connRef = [p \in Peers |-> "cur"]
  /\ connOpen = [p \in Peers |-> TRUE]
  /\ link = "accepted"
  /\ chan = [p \in Peers |-> << >>]
  /\ lead = 0

\* one frame of loop() in each copy, with the same outcome of Math.random()
TwinTick ==
  /\ \E dirY \in {1, -1} :
       LET after == [p \in Peers |->
                      Update(gameState[p], dirY, loopNickname[p], LoopRemoteNickname)]
       IN /\ gameState' = after
          /\ uiState' = [p \in Peers |->
                           IF Running(gameState[p]) /\ after[p].isGameOver
                           THEN EndGameUi(uiState[p], after[p].winner)
                           ELSE uiState[p]]
          /\ chan' = [p \in Peers |->
                        UpdateMessages(gameState[p], after[p], ConnIsOpen(p),
                                       connRef[p] # "null")]
  /\ UNCHANGED << localNickname, loopNickname, peerNickname, peerRef, peerRole,
                  connRef, connOpen, link, lead >>

\* handleInput with the same pointer position in each copy
TwinInput(relativeY) ==
  /\ \A p \in Peers : ~(~gameState[p].isRunning /\ uiState[p].gameStatus # "PLAYING")
  /\ gameState' = [p \in Peers |->
                     IF gameState[p].mode = "CLIENT"
                     THEN [gameState[p] EXCEPT !.paddleRightY = PointerPaddleY(relativeY)]
                     ELSE [gameState[p] EXCEPT !.paddleLeftY = PointerPaddleY(relativeY)]]
  /\ UNCHANGED << uiState, localNickname, loopNickname, peerNickname, peerRef,
                  peerRole, connRef, connOpen, link, chan, lead >>

\* conn.on('data') of startHost with the same INPUT message in each copy
TwinMessage(data) ==
  /\ data.type = "INPUT"
  /\ gameState' = [p \in Peers |-> [gameState[p] EXCEPT !.paddleRightY = data.y]]
  /\ UNCHANGED << uiState, localNickname, loopNickname, peerNickname, peerRef,
                  peerRole, connRef, connOpen, link, chan, lead >>

\* the pointer moves while the ball comes toward the left paddle, an INPUT
\* arrives while it comes toward the right one
NextTwin ==
  \/ TwinTick
  \/ Approaching("A") /\ \E y \in {Fx(100), Fx(600)} : TwinInput(y)
  \/ /\ gameState["A"].dx > 0 /\ gameState["A"].x > Fx(GAME_WIDTH - ApproachZone)
     /\ \E y \in {0, Fx(GAME_HEIGHT - PADDLE_HEIGHT)} : TwinMessage(InputMsg(y))

SpecTwin == InitTwin /\ [][NextTwin]_vars

\* ---------------------------------------------------------------- properties
Authoritative(s) == s.mode \in {"SINGLE", "HOST"}

Networked(s) == s.mode \in {"HOST", "CLIENT"}

\* the step hands the message at the head of chan[p] of the given type to p
Receives(p, type) == Deliver(p) /\ Head(chan[p]).type = type

\* the step is a frame of p in which update() goes past its first return
RunningTick(p) == Running(gameState[p]) /\ Tick(p)

\* C1: in every reachable state both paddle offsets of both instances lie in
\* [0, GAME_HEIGHT - PADDLE_HEIGHT], whoever wrote them: the pointer, an
\* INPUT message handled by the HOST or a STATE snapshot handled by the CLIENT.
C1_PaddlesInField ==
  \A p \in Peers :
    /\ gameState[p].paddleLeftY \in 0..Fx(GAME_HEIGHT - PADDLE_HEIGHT)
    /\ gameState[p].paddleRightY \in 0..Fx(GAME_HEIGHT - PADDLE_HEIGHT)

\* the pointer of B was clamped to the lowest offset, the HOST took it from an
\* INPUT message and the CLIENT took the paddle of A from a snapshot
C1_Witness ==
  /\ gameState["A"].mode = "HOST" /\ gameState["B"].mode = "CLIENT"
  /\ gameState["B"].paddleRightY = Fx(GAME_HEIGHT - PADDLE_HEIGHT)
  /\ gameState["A"].paddleRightY = Fx(GAME_HEIGHT - PADDLE_HEIGHT)
  /\ gameState["A"].paddleLeftY = Fx(60)
  /\ gameState["B"].paddleLeftY = Fx(60)

\* the step makes p run a networked match it did not run before
EntersNetMatch(p) ==
  /\ gameState'[p].isRunning
  /\ Networked(gameState'[p])
  /\ ~gameState[p].isRunning \/ gameState[p].mode # gameState'[p].mode

\* C2 (as amended): an instance starts to run a networked match, and so to
\* tick it, only in the step in which it handles the NICKNAME message of its
\* peer, whose name it then holds as remoteNickname.
C2_StartsOnIdentity ==
  [][\A p \in Peers :
       EntersNetMatch(p) =>
         /\ Receives(p, "NICKNAME")
         /\ uiState'[p].remoteNickname = Head(chan[p]).name]_vars

\* both instances have ticked the match, each holding the name the other sent
C2_Witness ==
  /\ Paired(gameState)
  /\ gameState["A"].x # InitialGameState.x
  /\ gameState["B"].x # InitialGameState.x
  /\ uiState["A"].remoteNickname = PLAYER_1
  /\ uiState["B"].remoteNickname = <<"A", "N", "N">>

\* C2 as stated: no instance ticks a networked match before both instances
\* have handled the NICKNAME of the other (and so left HOST_WAIT / JOIN_INPUT).
C2_Original ==
  [][\A p \in Peers :
       (RunningTick(p) /\ Networked(gameState[p])) =>
         \A q \in Peers : uiState[q].gameStatus \in {"PLAYING", "GAME_OVER"}]_vars

\* the step takes a score of p to WINNING_SCORE on an authoritative role
LeftReaches(p) ==
  /\ Authoritative(gameState'[p])
  /\ gameState[p].scoreLeft < WINNING_SCORE
  /\ gameState'[p].scoreLeft >= WINNING_SCORE

RightReaches(p) ==
  /\ Authoritative(gameState'[p])
  /\ gameState[p].scoreRight < WINNING_SCORE
  /\ gameState'[p].scoreRight >= WINNING_SCORE

EndsMatch(p) ==
  /\ ~gameState'[p].isRunning
  /\ gameState'[p].isGameOver
  /\ uiState'[p].gameStatus = "GAME_OVER"

\* C3 as stated: the step that takes a score to 11 on SINGLE or HOST ends the
\* match, records as winner the name of the side that reached 11, and no
\* later tick changes the match state.
C3_Original ==
  /\ [][\A p \in Peers :
          /\ LeftReaches(p) => EndsMatch(p) /\ gameState'[p].winner = LeftName(p)'
          /\ RightReaches(p) => EndsMatch(p) /\ gameState'[p].winner = RightName(p)']_vars
  /\ [][\A p \in Peers :
          (gameState[p].isGameOver /\ Tick(p)) => gameState'[p] = gameState[p]]_vars

\* C3 without the identity of the winner: the step that takes a score to 11
\* ends the match and records a winner, and no later tick changes the state.
C3_EndsOnce ==
  /\ [][\A p \in Peers :
          (LeftReaches(p) \/ RightReaches(p)) =>
            EndsMatch(p) /\ gameState'[p].winner # Null]_vars
  /\ [][\A p \in Peers :
          (gameState[p].isGameOver /\ Tick(p)) => gameState'[p] = gameState[p]]_vars

\* the step ends a match of p on an authoritative role
AuthoritativeEnd(p) ==
  /\ Authoritative(gameState'[p])
  /\ ~gameState[p].isGameOver
  /\ gameState'[p].isGameOver

\* C4 as stated: at game over HOST records its own name, the one it sent in
\* its NICKNAME message, for a left win and the name received from the
\* CLIENT for a right win; SINGLE records the current localNickname for a
\* left win and CPU for a right win.
C4_Original ==
  [][\A p \in Peers :
       AuthoritativeEnd(p) =>
         gameState'[p].winner =
           IF gameState'[p].scoreLeft >= WINNING_SCORE
           THEN (IF gameState'[p].mode = "HOST" THEN peerNickname[p] ELSE localNickname[p])
           ELSE (IF gameState'[p].mode = "HOST" THEN uiState[p].remoteNickname ELSE CPU)]_vars

\* the fields of the match state a CLIENT takes from the HOST
Authority(s) == << s.dx, s.dy, s.scoreLeft, s.scoreRight >>

\* C5: on CLIENT the ball velocity and the scores change only in a step that
\* handles a STATE snapshot or the NICKNAME that starts a match; ticks, pointer
\* input and the handling of SOUND and OVER leave them alone.
C5_ClientAuthority ==
  [][\A p \in Peers :
       ( /\ gameState[p].mode = "CLIENT"
         /\ gameState'[p].mode = "CLIENT"
         /\ Authority(gameState'[p]) # Authority(gameState[p]) )
       => Receives(p, "STATE") \/ Receives(p, "NICKNAME")]_vars

\* the CLIENT has taken velocity and score from snapshots, has moved its own
\* paddle and has extrapolated the ball beyond a wall without bouncing it
C5_Witness ==
  LET s == gameState["B"]
  IN /\ s.mode = "CLIENT" /\ Running(s)
     /\ s.scoreLeft + s.scoreRight >= 1
     /\ s.paddleRightY = Fx(GAME_HEIGHT - PADDLE_HEIGHT)
     /\ (s.y < 0 /\ s.dy < 0) \/ (s.y + Fx(BALL_SIZE) > Fx(GAME_HEIGHT) /\ s.dy > 0)

\* C6 (as amended): on SINGLE and HOST ball.speed is the size of ball.dx in
\* every reachable state; on CLIENT, whose snapshots bring dx but not speed,
\* ball.speed stays at INITIAL_BALL_SPEED.
C6_SpeedTracksDx ==
  \A p \in Peers :
    /\ Authoritative(gameState[p]) => gameState[p].speed = Abs(gameState[p].dx)
    /\ gameState[p].mode = "CLIENT" => gameState[p].speed = Fx(INITIAL_BALL_SPEED)

\* after a paddle hit the HOST has raised speed and dx, the CLIENT only dx
C6_Witness ==
  /\ gameState["A"].mode = "HOST"
  /\ gameState["A"].speed > Fx(INITIAL_BALL_SPEED)
  /\ gameState["B"].mode = "CLIENT"
  /\ Abs(gameState["B"].dx) > Fx(INITIAL_BALL_SPEED)
  /\ gameState["B"].speed = Fx(INITIAL_BALL_SPEED)

\* C6 as stated: in every role ball.speed is the size of ball.dx.
C6_Original == \A p \in Peers : gameState[p].speed = Abs(gameState[p].dx)

\* C7: on SINGLE and HOST ball.speed lies between INITIAL_BALL_SPEED and
\* MAX_BALL_SPEED in every reachable state, a tick without a point does not
\* lower it, and a tick with a point sets it back to INITIAL_BALL_SPEED.
C7_SpeedInRally ==
  /\ [](\A p \in Peers :
          Authoritative(gameState[p]) =>
            /\ gameState[p].speed >= Fx(INITIAL_BALL_SPEED)
            /\ gameState[p].speed <= Fx(MAX_BALL_SPEED))
  /\ [][\A p \in Peers :
          (RunningTick(p) /\ Authoritative(gameState[p])) =>
            IF /\ gameState'[p].scoreLeft = gameState[p].scoreLeft
               /\ gameState'[p].scoreRight = gameState[p].scoreRight
            THEN gameState'[p].speed >= gameState[p].speed
            ELSE gameState'[p].speed = Fx(INITIAL_BALL_SPEED)]_vars

\* a rally has reached MAX_BALL_SPEED after a point had been played
C7_Witness ==
  /\ gameState["A"].speed = Fx(MAX_BALL_SPEED)
  /\ Running(gameState["A"])
  /\ gameState["A"].scoreLeft + gameState["A"].scoreRight >= 1

\* the step starts a match at p
StartsMatch(p) ==
  /\ gameState'[p] # gameState[p]
  /\ \E mode \in {"SINGLE", "HOST", "CLIENT"}, serveLeft \in BOOLEAN :
       gameState'[p] = NewGameState(mode, serveLeft)

\* C8: the scores are never negative; in a step that does not start a match
\* neither score decreases; a tick on SINGLE or HOST raises at most one of
\* them, and by 1.
C8_ScoresGrow ==
  /\ [](\A p \in Peers : gameState[p].scoreLeft >= 0 /\ gameState[p].scoreRight >= 0)
  /\ [][\A p \in Peers :
          ~StartsMatch(p) =>
            /\ gameState'[p].scoreLeft >= gameState[p].scoreLeft
            /\ gameState'[p].scoreRight >= gameState[p].scoreRight]_vars
  /\ [][\A p \in Peers :
          (RunningTick(p) /\ Authoritative(gameState[p])) =>
            (gameState'[p].scoreLeft + gameState'[p].scoreRight)
              - (gameState[p].scoreLeft + gameState[p].scoreRight) \in {0, 1}]_vars

\* both sides have scored on the HOST and the CLIENT shows the same scores
C8_Witness ==
  /\ gameState["A"].mode = "HOST"
  /\ gameState["A"].scoreLeft >= 1 /\ gameState["A"].scoreRight >= 1
  /\ gameState["B"].mode = "CLIENT"
  /\ gameState["B"].scoreLeft = gameState["A"].scoreLeft
  /\ gameState["B"].scoreRight = gameState["A"].scoreRight

\* the messages the step adds to those in flight to q
Added(q) == SubSeq(chan'[q], Len(chan[q]) + 1, Len(chan'[q]))

\* the snapshot m is the match state s: ball, paddles and scores
SnapshotOf(m, s) ==
  /\ m.type = "STATE"
  /\ m.state.ball.x = s.x /\ m.state.ball.y = s.y
  /\ m.state.ball.dx = s.dx /\ m.state.ball.dy = s.dy
  /\ m.state.pLeft = s.paddleLeftY /\ m.state.pRight = s.paddleRightY
  /\ m.state.sLeft = s.scoreLeft /\ m.state.sRight = s.scoreRight

\* C9: a tick of a running HOST match over an open connection sends exactly
\* one STATE message, after every other message of the tick, and it carries
\* ball, paddles and scores as the tick leaves them.
C9_OneSnapshotPerTick ==
  [][\A p \in Peers :
       ( /\ RunningTick(p)
         /\ gameState[p].mode = "HOST"
         /\ ConnIsOpen(p) /\ link = "accepted" )
       => LET new == Added(Other(p))
          IN /\ Len(chan'[Other(p)]) > Len(chan[Other(p)])
             /\ SubSeq(chan'[Other(p)], 1, Len(chan[Other(p)])) = chan[Other(p)]
             /\ SnapshotOf(new[Len(new)], gameState'[p])
             /\ \A i \in 1..(Len(new) - 1) : new[i].type # "STATE"]_vars

\* the HOST has played a point and the snapshot of its last tick is in flight
C9_Witness ==
  /\ Running(gameState["A"]) /\ gameState["A"].mode = "HOST"
  /\ gameState["A"].scoreLeft + gameState["A"].scoreRight >= 1
  /\ chan["B"] # << >>
  /\ SnapshotOf(chan["B"][Len(chan["B"])], gameState["A"])

\* C10 (as amended): a tick of a running CLIENT adds the velocity to the ball
\* position and changes nothing else of the match state or the lifecycle; it
\* sends one INPUT message with paddleRightY if the connection is open and no
\* message if it is not.
C10_ClientTick ==
  [][\A p \in Peers :
       (RunningTick(p) /\ gameState[p].mode = "CLIENT") =>
         /\ gameState'[p] = [gameState[p] EXCEPT !.x = @ + gameState[p].dx,
                                                  !.y = @ + gameState[p].dy]
         /\ uiState' = uiState
         /\ chan'[p] = chan[p]
         /\ chan'[Other(p)] =
              IF ConnIsOpen(p) /\ link = "accepted"
              THEN Append(chan[Other(p)],
                          [type |-> "INPUT", y |-> gameState[p].paddleRightY])
              ELSE chan[Other(p)]]_vars

\* the CLIENT has extrapolated its ball out of the field and its INPUT is in
\* flight
C10_Witness ==
  LET s == gameState["B"]
  IN /\ s.mode = "CLIENT" /\ Running(s)
     /\ s.x < 0 \/ s.x > Fx(GAME_WIDTH)
     /\ chan["A"] # << >>
     /\ chan["A"][Len(chan["A"])] = [type |-> "INPUT", y |-> s.paddleRightY]

\* C10 as stated: every tick of a running CLIENT sends one INPUT message.  (A
\* send on an open end of a connection whose other end is gone is not shown
\* by chan and is left out.)
C10_Original ==
  [][\A p \in Peers :
       ( /\ RunningTick(p)
         /\ gameState[p].mode = "CLIENT"
         /\ ~(ConnIsOpen(p) /\ link # "accepted") )
       => chan'[Other(p)] =
            Append(chan[Other(p)], [type |-> "INPUT", y |-> gameState[p].paddleRightY])]_vars

\* the step changes the match state or the lifecycle of p
Acts(p) ==
  \/ gameState'[p] # gameState[p]
  \/ uiState'[p].gameStatus # uiState[p].gameStatus

Dist2(s, n) ==
  (s.x - n.ball.x) * (s.x - n.ball.x) + (s.y - n.ball.y) * (s.y - n.ball.y)

\* C12: a snapshot handled at a distance greater than 50 puts the ball on the
\* position of the snapshot; at a distance of exactly 50 the ball goes to the
\* midpoint instead.
C12_SnapBeyond50 ==
  [][\A p \in Peers :
       Receives(p, "STATE") =>
         LET s == gameState[p]
             n == Head(chan[p]).state
         IN /\ Dist2(s, n) > Fx(50) * Fx(50) =>
                 gameState'[p].x = n.ball.x /\ gameState'[p].y = n.ball.y
            /\ Dist2(s, n) = Fx(50) * Fx(50) =>
                 /\ 2 * gameState'[p].x = s.x + n.ball.x
                 /\ 2 * gameState'[p].y = s.y + n.ball.y]_vars

\* a ball that was 30 and 40 off the snapshot, a distance of exactly 50, has
\* handled it once and is 15 and 20 off
C12_Witness ==
  /\ Len(chan["B"]) = MaxRepeat - 1
  /\ gameState["B"].x = SnapshotHost.x + Fx(15)
  /\ gameState["B"].y = SnapshotHost.y + Fx(20)

\* one coordinate of the blend: v goes to target, new is what it becomes
HalfWay(v, target, new) ==
  /\ (target - v) % 2 = 0 => 2 * new = v + target
  /\ 2 * Abs(target - new) <= Abs(target - v) + 1
  /\ Abs(target - new) <= Abs(target - v)
  /\ (target - new) * (target - v) >= 0
  /\ v = target => new = target

\* C13: a snapshot handled at a distance of at most 50 moves each coordinate
\* of the ball to the midpoint between it and the snapshot (to the grid point
\* next to the midpoint on its own side where the midpoint is off the grid):
\* the distance on each axis halves, never grows, never changes sign, and a
\* ball on the snapshot stays on it.
C13_BlendHalves ==
  [][\A p \in Peers :
       Receives(p, "STATE") =>
         LET s == gameState[p]
             n == Head(chan[p]).state
         IN Dist2(s, n) <= Fx(50) * Fx(50) =>
              /\ HalfWay(s.x, n.ball.x, gameState'[p].x)
              /\ HalfWay(s.y, n.ball.y, gameState'[p].y)]_vars

\* a ball that was 40 and 30 off the snapshot has handled MaxRepeat copies of
\* it and has halved its offset on the x axis each time
C13_Witness ==
  /\ chan["B"] = << >>
  /\ gameState["B"].x - SnapshotHost.x = Fx(40) \div (2 ^ MaxRepeat)
  /\ gameState["B"].y # SnapshotHost.y
  /\ gameState["B"].y - SnapshotHost.y <= Fx(30) \div (2 ^ MaxRepeat)
  /\ gameState["B"].y - SnapshotHost.y > 0

\* C14: a snapshot handled by the CLIENT sets dx, dy, both scores and
\* paddleLeftY to the values of the snapshot, at any distance, and leaves
\* paddleRightY and ball.speed as they are.
C14_SnapshotFields ==
  [][\A p \in Peers :
       Receives(p, "STATE") =>
         LET n == Head(chan[p]).state
         IN /\ gameState'[p].dx = n.ball.dx
            /\ gameState'[p].dy = n.ball.dy
            /\ gameState'[p].scoreLeft = n.sLeft
            /\ gameState'[p].scoreRight = n.sRight
            /\ gameState'[p].paddleLeftY = n.pLeft
            /\ gameState'[p].paddleRightY = gameState[p].paddleRightY
            /\ gameState'[p].speed = gameState[p].speed]_vars

\* the CLIENT holds the scores, the velocity and the paddle of a HOST that
\* has played a point and moved its paddle
C14_Witness ==
  /\ gameState["B"].mode = "CLIENT" /\ Running(gameState["B"])
  /\ gameState["B"].scoreLeft + gameState["B"].scoreRight >= 1
  /\ gameState["B"].paddleLeftY = Fx(60)
  /\ gameState["B"].dx = gameState["A"].dx
  /\ gameState["B"].dy = gameState["A"].dy
  /\ gameState["B"].dy # InitialGameState.dy
  /\ gameState["B"].scoreLeft = gameState["A"].scoreLeft
  /\ gameState["B"].scoreRight = gameState["A"].scoreRight

\* C15: an OVER message handled by the CLIENT sets isRunning false,
\* isGameOver true, gameStatus GAME_OVER and the winner to the name in the
\* message, which is the winner the HOST recorded; the CLIENT enters
\* GAME_OVER in no other step.
C15_ClientOver ==
  /\ [][\A p \in Peers :
          Receives(p, "OVER") =>
            /\ ~gameState'[p].isRunning
            /\ gameState'[p].isGameOver
            /\ uiState'[p].gameStatus = "GAME_OVER"
            /\ gameState'[p].winner = Head(chan[p]).winner
            /\ uiState'[p].winnerName = Head(chan[p]).winner
            /\ gameState[Other(p)].winner = Head(chan[p]).winner]_vars
  /\ [][\A p \in Peers :
          ( /\ gameState'[p].mode = "CLIENT"
            /\ \/ uiState[p].gameStatus # "GAME_OVER" /\ uiState'[p].gameStatus = "GAME_OVER"
               \/ ~gameState[p].isGameOver /\ gameState'[p].isGameOver )
          => Receives(p, "OVER")]_vars

\* the CLIENT shows GAME_OVER with the winner the HOST recorded, and has
\* since taken the final score from the last snapshot
C15_Witness ==
  /\ gameState["B"].mode = "CLIENT"
  /\ gameState["B"].isGameOver /\ ~gameState["B"].isRunning
  /\ uiState["B"].gameStatus = "GAME_OVER"
  /\ gameState["B"].winner # Null
  /\ gameState["B"].winner = gameState["A"].winner
  /\ gameState["B"].scoreLeft = WINNING_SCORE \/ gameState["B"].scoreRight = WINNING_SCORE

\* C16 as stated: GAME_OVER is entered only by the win check of a tick on
\* SINGLE or HOST or by an OVER message on the CLIENT; it is left only by the
\* MAIN MENU button, which goes to MENU and destroys the peer; no tick and no
\* message leaves it.
C16_Original ==
  [][\A p \in Peers :
       /\ (uiState[p].gameStatus # "GAME_OVER" /\ uiState'[p].gameStatus = "GAME_OVER")
            => \/ RunningTick(p) /\ Authoritative(gameState[p]) /\ Wins(gameState'[p])
               \/ Receives(p, "OVER")
       /\ (uiState[p].gameStatus = "GAME_OVER" /\ uiState'[p].gameStatus # "GAME_OVER")
            => /\ MainMenu(p)
               /\ uiState'[p].gameStatus = "MENU"
               /\ peerRef'[p] \in {"null", "destroyed"}]_vars

\* the lifecycle steps C17 lists, with CANCEL and BACK; a step to PLAYING as
\* HOST or CLIENT handles the NICKNAME of the peer
LifecycleOrder(p) ==
  LET from == uiState[p].gameStatus
      to == uiState'[p].gameStatus
  IN \/ from = to
     \/ from = "MENU" /\ to \in {"HOST_WAIT", "JOIN_INPUT"}
     \/ from = "MENU" /\ to = "PLAYING" /\ gameState'[p].mode = "SINGLE"
     \/ from = "HOST_WAIT" /\ to = "PLAYING" /\ gameState'[p].mode = "HOST"
          /\ Receives(p, "NICKNAME")
     \/ from = "JOIN_INPUT" /\ to = "PLAYING" /\ gameState'[p].mode = "CLIENT"
          /\ Receives(p, "NICKNAME")
     \/ from = "PLAYING" /\ to = "GAME_OVER"
     \/ from \in {"GAME_OVER", "HOST_WAIT", "JOIN_INPUT"} /\ to = "MENU"

\* C17 as stated: the lifecycle goes from MENU to HOST_WAIT or JOIN_INPUT
\* (or, for SINGLE, straight on), then to PLAYING, for HOST and CLIENT on the
\* NICKNAME of the peer, then to GAME_OVER, then to MENU.
C17_Original == [][\A p \in Peers : LifecycleOrder(p)]_vars

\* C18 as stated: a transport error shows as a status value, takes the
\* lifecycle back to MENU and leaves the match state alone.
C18_Original ==
  [][\A p \in Peers :
       PeerError(p) =>
         /\ uiState'[p].connectionStatus = "Error"
         /\ uiState'[p].gameStatus = "MENU"
         /\ gameState' = gameState]_vars

\* C19: on HOST paddleRightY is the centred offset from the start of the
\* match, becomes y when an INPUT with y is handled, and changes in no other
\* step: not in a tick, not on pointer input.
C19_HostRightPaddle ==
  [][\A p \in Peers :
       gameState'[p].mode = "HOST" =>
         /\ StartsMatch(p) =>
              gameState'[p].paddleRightY = Fx(GAME_HEIGHT) \div 2 - Fx(PADDLE_HEIGHT) \div 2
         /\ Receives(p, "INPUT") => gameState'[p].paddleRightY = Head(chan[p]).y
         /\ gameState'[p].paddleRightY # gameState[p].paddleRightY =>
              StartsMatch(p) \/ Receives(p, "INPUT")]_vars

\* the HOST has ticked with the paddle of the CLIENT still centred, then took
\* the offset of an INPUT message and has ticked on with it
C19_Witness ==
  /\ gameState["A"].mode = "HOST" /\ Running(gameState["A"])
  /\ gameState["A"].scoreLeft >= 1
  /\ gameState["A"].paddleRightY = Fx(GAME_HEIGHT - PADDLE_HEIGHT)
  /\ gameState["B"].paddleRightY = Fx(GAME_HEIGHT - PADDLE_HEIGHT)
  /\ chan["A"] = << >>

\* the ball of p after the collisions of the tick at hand, before scoring
BeforeScoring(p) == Collided(gameState[p])

\* the ball lies at the centre with the speed of a serve toward dirX
Served(s, dirX) ==
  /\ s.x = Fx(GAME_WIDTH) \div 2 - Fx(BALL_SIZE) \div 2
  /\ s.y = Fx(GAME_HEIGHT) \div 2 - Fx(BALL_SIZE) \div 2
  /\ s.speed = Fx(INITIAL_BALL_SPEED)
  /\ s.dx = dirX * Fx(INITIAL_BALL_SPEED)
  /\ 4 * Abs(s.dy) = 3 * Fx(INITIAL_BALL_SPEED)

\* C20: a tick on SINGLE or HOST whose ball ends past the right edge adds 1
\* to scoreLeft alone and serves from the centre toward the right at speed 7
\* with |dy| = 5.25; past the left edge it adds 1 to scoreRight alone and
\* serves toward the left; the ball is served also in the tick whose win
\* check has ended the match; a tick whose ball stays inside scores nothing.
C20_Scoring ==
  [][\A p \in Peers :
       (RunningTick(p) /\ Authoritative(gameState[p])) =>
         LET s == gameState[p]
             t == gameState'[p]
             b == BeforeScoring(p)
         IN /\ b.x > Fx(GAME_WIDTH) =>
                 /\ t.scoreLeft = s.scoreLeft + 1 /\ t.scoreRight = s.scoreRight
                 /\ Served(t, 1)
                 /\ t.isGameOver <=> t.scoreLeft >= WINNING_SCORE
            /\ b.x < 0 =>
                 /\ t.scoreRight = s.scoreRight + 1 /\ t.scoreLeft = s.scoreLeft
                 /\ Served(t, -1)
                 /\ t.isGameOver <=> t.scoreRight >= WINNING_SCORE
            /\ (b.x >= 0 /\ b.x <= Fx(GAME_WIDTH)) =>
                 /\ t.scoreLeft = s.scoreLeft /\ t.scoreRight = s.scoreRight
                 /\ ~t.isGameOver]_vars

\* the tick that took the left side to the winning score has ended the match
\* on the HOST and has served the ball toward the right all the same
C20_Witness ==
  /\ gameState["A"].mode = "HOST"
  /\ gameState["A"].isGameOver /\ ~gameState["A"].isRunning
  /\ gameState["A"].scoreLeft = WINNING_SCORE
  /\ Served(gameState["A"], 1)

\* dy is hitPoint / (PADDLE_HEIGHT / 2) * 10, exactly where the quotient lies
\* on the grid of the model and to less than one grid step elsewhere
DeflectedBy(dy, hitPoint) ==
  /\ Abs(dy * (PADDLE_HEIGHT \div 2) - hitPoint * 10) < PADDLE_HEIGHT \div 2
  /\ hitPoint = 0 => dy = 0

\* C21: a tick on SINGLE or HOST whose ball, integrated and bounced off the
\* walls, overlaps the left paddle ends with dx > 0, one that overlaps the
\* right paddle with dx < 0, and in both cases with
\* dy = (centre of the ball - centre of the paddle) / (PADDLE_HEIGHT / 2) * 10,
\* which is 0 when the two centres are level.
C21_PaddleCollision ==
  [][\A p \in Peers :
       (RunningTick(p) /\ Authoritative(gameState[p])) =>
         LET m == Moved(gameState[p])
             t == gameState'[p]
         IN /\ OverlapsLeft(m) =>
                 /\ t.dx > 0
                 /\ DeflectedBy(t.dy, m.y + Fx(BALL_SIZE) \div 2
                                         - (m.paddleLeftY + Fx(PADDLE_HEIGHT) \div 2))
            /\ OverlapsRight(m) =>
                 /\ t.dx < 0
                 /\ DeflectedBy(t.dy, m.y + Fx(BALL_SIZE) \div 2
                                         - (m.paddleRightY + Fx(PADDLE_HEIGHT) \div 2))]_vars

\* the left paddle has just returned a ball it met centre to centre: the ball
\* still overlaps the paddle, flies level and to the right
C21_Witness ==
  /\ Running(gameState["A"]) /\ gameState["A"].mode = "SINGLE"
  /\ OverlapsLeft(gameState["A"])
  /\ HitPoint(gameState["A"], gameState["A"].paddleLeftY) = 0
  /\ gameState["A"].dy = 0
  /\ gameState["A"].dx > 0
  /\ gameState["A"].speed > Fx(INITIAL_BALL_SPEED)

\* the ball of p integrated by the tick at hand, before the wall test
Integrated(p) == Integrate(AIControl(gameState[p]))

\* the y the wall collision leaves a ball that meets a wall
WallClamp(i) == IF i.y <= 0 THEN 0 ELSE Fx(GAME_HEIGHT - BALL_SIZE)

\* the tick at hand of p neither hits a paddle nor scores
PlainFlight(p) ==
  LET m == Moved(gameState[p])
  IN ~OverlapsLeft(m) /\ ~OverlapsRight(m) /\ ~ScoresLeft(m) /\ ~ScoresRight(m)

\* C22 (amended): on SINGLE and HOST a tick whose integrated ball has its top
\* at or above 0 or its bottom at or below GAME_HEIGHT, and which neither
\* hits a paddle nor scores, ends with dy negated and y clamped to 0 or to
\* GAME_HEIGHT - BALL_SIZE; a tick whose ball meets no wall, no paddle and no
\* edge keeps dy; and after every tick y lies in [0, GAME_HEIGHT - BALL_SIZE].
C22_WallCollision ==
  [][\A p \in Peers :
       (RunningTick(p) /\ Authoritative(gameState[p])) =>
         LET s == gameState[p]
             i == Integrated(p)
             t == gameState'[p]
         IN /\ (HitsWall(i) /\ PlainFlight(p)) =>
                 (t.dy = -s.dy /\ t.y = WallClamp(i))
            /\ (~HitsWall(i) /\ PlainFlight(p)) => (t.dy = s.dy /\ t.y = i.y)
            /\ t.y >= 0 /\ t.y <= Fx(GAME_HEIGHT - BALL_SIZE)]_vars

\* the ball has just bounced off the top wall in free flight: it lies at
\* y = 0, moves down and is away from both paddles
C22_Witness ==
  /\ gameState["A"].mode = "SINGLE" /\ Running(gameState["A"])
  /\ gameState["A"].y = 0 /\ gameState["A"].dy > 0
  /\ gameState["A"].x > Fx(2 * ApproachZone)
  /\ gameState["A"].x < Fx(GAME_WIDTH - 2 * ApproachZone)

\* C22 as stated: whenever the integrated ball meets a wall on SINGLE or
\* HOST, the tick ends with dy negated and y clamped to the wall.
C22_Original ==
  [][\A p \in Peers :
       (RunningTick(p) /\ Authoritative(gameState[p]) /\ HitsWall(Integrated(p))) =>
         /\ gameState'[p].dy = -gameState[p].dy
         /\ gameState'[p].y = WallClamp(Integrated(p))]_vars

\* the centre of the ball of s minus the centre of the right paddle
CentreOffset(s) ==
  s.y + Fx(BALL_SIZE) \div 2 - (s.paddleRightY + Fx(PADDLE_HEIGHT) \div 2)

\* the right paddle after one step of a tracker with a dead zone of 10 around
\* the given offset
Tracked(s, offset) ==
  ClampPaddle(IF offset > AI_DEAD_ZONE THEN s.paddleRightY + COMPUTER_SPEED
              ELSE IF offset < -AI_DEAD_ZONE THEN s.paddleRightY - COMPUTER_SPEED
              ELSE s.paddleRightY)

\* C23 as stated: a tick on SINGLE moves the right paddle one step of 6.5
\* down if the centre of the ball, before it is integrated, is more than 10
\* below the centre of the paddle, one step up if it is more than 10 above,
\* and not otherwise, and clamps it to [0, 520]; a tick on HOST leaves the
\* right paddle alone.
C23_Original ==
  [][\A p \in Peers :
       RunningTick(p) =>
         /\ gameState[p].mode = "SINGLE" =>
              gameState'[p].paddleRightY = Tracked(gameState[p], CentreOffset(gameState[p]))
         /\ gameState[p].mode = "HOST" =>
              gameState'[p].paddleRightY = gameState[p].paddleRightY]_vars

\* what a detected overlap with the paddle on side dir (1 left, -1 right)
\* makes of the speed and the dx of s, as C24 states it
Quickened(s, t, dir) ==
  IF s.speed < Fx(MAX_BALL_SPEED)
  THEN t.speed = s.speed + SPEED_STEP /\ t.dx = dir * t.speed
  ELSE t.speed = s.speed /\ t.dx = dir * Abs(s.dx)

\* C24: a tick on SINGLE or HOST that detects an overlap with a paddle raises
\* ball.speed by exactly 0.5 if it was below 14 and sets dx to the new speed,
\* signed away from the paddle; at speed 14 it leaves the speed and the size
\* of dx and only forces the sign of dx; a tick that detects no overlap and
\* no score leaves speed and dx alone.
C24_HitQuickens ==
  [][\A p \in Peers :
       (RunningTick(p) /\ Authoritative(gameState[p])) =>
         LET s == gameState[p]
             m == Moved(s)
             t == gameState'[p]
         IN /\ OverlapsLeft(m) => Quickened(s, t, 1)
            /\ OverlapsRight(m) => Quickened(s, t, -1)
            /\ PlainFlight(p) => (t.speed = s.speed /\ t.dx = s.dx)]_vars

\* a ball at the cap overlaps the left paddle and flies to the right at
\* 14: the paddle has returned it at the cap
C24_Witness ==
  /\ Running(gameState["A"]) /\ gameState["A"].mode = "SINGLE"
  /\ OverlapsLeft(gameState["A"])
  /\ gameState["A"].speed = Fx(MAX_BALL_SPEED)
  /\ gameState["A"].dx = Fx(MAX_BALL_SPEED)

\* the ball of s is level with a paddle whose top is py
LevelWith(s, py) == s.y < py + Fx(PADDLE_HEIGHT) /\ s.y + Fx(BALL_SIZE) > py

\* between s and t the ball, level with a paddle that stands still, has gone
\* from one side of the paddle's horizontal extent to the other and flies on
Tunnels(s, t) ==
  /\ t.dx = s.dx /\ t.paddleLeftY = s.paddleLeftY /\ t.paddleRightY = s.paddleRightY
  /\ \/ /\ s.x >= Fx(PADDLE_OFFSET + PADDLE_WIDTH)
        /\ t.x + Fx(BALL_SIZE) <= Fx(PADDLE_OFFSET)
        /\ LevelWith(s, s.paddleLeftY) /\ LevelWith(t, s.paddleLeftY)
     \/ /\ s.x + Fx(BALL_SIZE) <= Fx(GAME_WIDTH - PADDLE_OFFSET - PADDLE_WIDTH)
        /\ t.x >= Fx(GAME_WIDTH - PADDLE_OFFSET)
        /\ LevelWith(s, s.paddleRightY) /\ LevelWith(t, s.paddleRightY)

PastPaddle(p) ==
  LET s == gameState[p]
  IN /\ Running(s)
     /\ \/ s.dx < 0 /\ s.x + Fx(BALL_SIZE) <= Fx(PADDLE_OFFSET)
              /\ LevelWith(s, s.paddleLeftY)
        \/ s.dx > 0 /\ s.x >= Fx(GAME_WIDTH - PADDLE_OFFSET)
              /\ LevelWith(s, s.paddleRightY)

C26_Original ==
  [][\A p \in Peers :
       uiState[p].gameStatus = "MENU" =>
         /\ uiState'[p].gameStatus = "PLAYING" => StartSingle(p)
         /\ (~gameState[p].isRunning /\ gameState'[p].isRunning) => StartSingle(p)]_vars

\* C27: a tick of an instance whose isRunning is false or whose isGameOver is
\* true leaves its match state as it is, whatever the role, changes nothing
\* of the lifecycle and sends no message.
C27_TickGating ==
  [][\A p \in Peers :
       (Tick(p) /\ (~gameState[p].isRunning \/ gameState[p].isGameOver)) =>
         /\ gameState'[p] = gameState[p]
         /\ uiState' = uiState
         /\ chan' = chan]_vars

\* both ends of a finished match stand still with the connection open: the
\* HOST could send and the ball of either could move, were the ticks to act
C27_Witness ==
  /\ gameState["A"].mode = "HOST" /\ gameState["B"].mode = "CLIENT"
  /\ gameState["A"].isGameOver /\ ~gameState["A"].isRunning
  /\ gameState["B"].isGameOver /\ ~gameState["B"].isRunning
  /\ ConnIsOpen("A") /\ ConnIsOpen("B") /\ link = "accepted"
  /\ chan = [p \in Peers |-> << >>]

\* the events of the tick at hand of p, in the order they occur: the ball
\* meets a wall, then a paddle, then passes an edge of the field
EventsOf(p) ==
  LET m == Moved(gameState[p])
      c == Collided(gameState[p])
  IN (IF HitsWall(Integrated(p)) THEN <<"WALL_HIT">> ELSE << >>)
     \o (IF OverlapsLeft(m) \/ OverlapsRight(m) THEN <<"PADDLE_HIT">> ELSE << >>)
     \o (IF c.x < 0 THEN <<"SCORE_ENEMY">>
         ELSE IF c.x > Fx(GAME_WIDTH) THEN <<"SCORE_PLAYER">> ELSE << >>)

\* C28: a tick of a running HOST match over an open connection sends, in this
\* order, one SOUND message for each event of the tick in the order of the
\* events, then OVER with the recorded winner if the tick has ended the
\* match, then one STATE message, which is the last and carries the state the
\* tick leaves; on the winning tick OVER thus precedes the snapshot with the
\* winning score.
C28_MessageOrder ==
  [][\A p \in Peers :
       ( /\ RunningTick(p)
         /\ gameState[p].mode = "HOST"
         /\ ConnIsOpen(p) /\ link = "accepted" )
       => LET new == Added(Other(p))
              ev == EventsOf(p)
              over == gameState'[p].isGameOver
              n == Len(ev) + (IF over THEN 1 ELSE 0)
          IN /\ SubSeq(chan'[Other(p)], 1, Len(chan[Other(p)])) = chan[Other(p)]
             /\ Len(new) = n + 1
             /\ \A i \in 1..Len(ev) : new[i] = [type |-> "SOUND", sound |-> ev[i]]
             /\ over => new[n] = [type |-> "OVER", winner |-> gameState'[p].winner]
             /\ over <=> Wins(gameState'[p])
             /\ SnapshotOf(new[n + 1], gameState'[p])]_vars

\* the messages of a winning tick in which the ball met a wall and passed the
\* edge are in flight to the CLIENT: the sound of the wall, the sound of the
\* point, OVER, and last the snapshot with the winning score
C28_Witness ==
  LET q == chan["B"]
  IN /\ gameState["A"].mode = "HOST" /\ gameState["A"].isGameOver
     /\ Len(q) = 4
     /\ q[1] = [type |-> "SOUND", sound |-> "WALL_HIT"]
     /\ q[2] = [type |-> "SOUND", sound |-> "SCORE_ENEMY"]
     /\ q[3] = [type |-> "OVER", winner |-> gameState["A"].winner]
     /\ SnapshotOf(q[4], gameState["A"])
     /\ q[4].state.sRight = WINNING_SCORE

\* the match of the HOST A has ended and nothing is on its way over the live
\* connection between A and the CLIENT B, in either direction
AllDelivered ==
  /\ gameState["A"].mode = "HOST" /\ gameState["A"].isGameOver
  /\ gameState["B"].mode = "CLIENT"
  /\ link = "accepted" /\ ConnIsOpen("A") /\ ConnIsOpen("B")
  /\ chan = [p \in Peers |-> << >>]

\* scoreLeft, scoreRight and winner of the CLIENT are those of the HOST
ScoreboardsAgree ==
  /\ gameState["B"].scoreLeft = gameState["A"].scoreLeft
  /\ gameState["B"].scoreRight = gameState["A"].scoreRight
  /\ gameState["B"].winner = gameState["A"].winner

\* C29 (amended): once the match of the HOST has ended and every message has
\* been handled, the CLIENT is in GAME_OVER, its scoreLeft, scoreRight and
\* winner are those of the HOST, and one of its scores is the winning score.
C29_ScoreboardAgreement ==
  AllDelivered =>
    /\ gameState["B"].isGameOver /\ uiState["B"].gameStatus = "GAME_OVER"
    /\ ScoreboardsAgree
    /\ Wins(gameState["B"])

\* both ends show the finished match, the right side having won it
C29_Witness ==
  /\ AllDelivered
  /\ uiState["A"].gameStatus = "GAME_OVER" /\ uiState["B"].gameStatus = "GAME_OVER"
  /\ gameState["B"].scoreRight = WINNING_SCORE
  /\ gameState["B"].winner = gameState["A"].winner /\ gameState["B"].winner # Null

\* C29 as stated: the scoreboards agree once the match of the HOST has ended
\* and everything is delivered, and in every state in which the CLIENT is in
\* GAME_OVER one of its scores is at least the winning score.
C29_Original ==
  /\ AllDelivered => ScoreboardsAgree
  /\ \A p \in Peers :
       (gameState[p].mode = "CLIENT" /\ uiState[p].gameStatus = "GAME_OVER")
         => Wins(gameState[p])

\* C30 as stated: while a match runs, in any role, a received message does
\* not re-create the match state: it changes neither the role nor, if it is
\* a NICKNAME message, anything else of the match state.
C30_Original ==
  [][\A p \in Peers :
       (Running(gameState[p]) /\ Deliver(p)) =>
         /\ gameState'[p].mode = gameState[p].mode
         /\ Head(chan[p]).type = "NICKNAME" => gameState'[p] = gameState[p]]_vars

\* the instance p has started a match of the given role
MatchStarted(p, mode) ==
  gameState[p].mode = mode /\ uiState[p].gameStatus \in {"PLAYING", "GAME_OVER"}

\* C31: an instance adds a STATE, SOUND, OVER or INPUT message to the channel
\* only when its end of the connection is open, that is after the open handler
\* has sent its NICKNAME; on the channel no NICKNAME follows a message of
\* another type; so the CLIENT handles STATE, SOUND and OVER, and the HOST
\* handles INPUT, only after the match of the handler has started.
C31_HandshakeFirst ==
  /\ [][\A p \in Peers :
          (\E i \in 1..Len(Added(Other(p))) : IsFrameMessage(Added(Other(p))[i]))
            => (connOpen[p] /\ ConnIsOpen(p))]_vars
  /\ [](\A q \in Peers : \A i, j \in 1..Len(chan[q]) :
          (i < j /\ IsFrameMessage(chan[q][i])) => IsFrameMessage(chan[q][j]))
  /\ [][\A p \in Peers :
          /\ (Receives(p, "STATE") \/ Receives(p, "SOUND") \/ Receives(p, "OVER"))
               => MatchStarted(p, "CLIENT")
          /\ Receives(p, "INPUT") => MatchStarted(p, "HOST")]_vars

\* the HOST has started its match and sent the sound of the start while its
\* NICKNAME is still on its way to the joining side, which waits on the join
\* screen
C31_Witness ==
  /\ Running(gameState["A"]) /\ gameState["A"].mode = "HOST"
  /\ uiState["B"].gameStatus = "JOIN_INPUT"
  /\ Len(chan["B"]) >= 2
  /\ chan["B"][1].type = "NICKNAME"
  /\ chan["B"][2] = [type |-> "SOUND", sound |-> "GAME_START"]

\* C32: in every reachable state of every instance isRunning and isGameOver
\* are not both true, isRunning implies gameStatus PLAYING, isGameOver implies
\* a winner that is not null, and isRunning implies the winner null.
C32_FlagsConsistent ==
  \A p \in Peers :
    LET s == gameState[p]
    IN /\ ~(s.isRunning /\ s.isGameOver)
       /\ s.isRunning => uiState[p].gameStatus = "PLAYING"
       /\ s.isGameOver => s.winner # Null
       /\ s.isRunning => s.winner = Null

\* the HOST is back in the menu after a match whose flags and winner its
\* match state still holds, while the CLIENT still shows the end of the match
C32_Witness ==
  /\ gameState["A"].mode = "HOST"
  /\ gameState["A"].isGameOver /\ ~gameState["A"].isRunning
  /\ gameState["A"].winner # Null
  /\ uiState["A"].gameStatus = "MENU"
  /\ uiState["B"].gameStatus = "GAME_OVER"

\* C33: on SINGLE and HOST, in every reachable state both scores are at most
\* WINNING_SCORE, at most one of them equals WINNING_SCORE, and a score equals
\* WINNING_SCORE exactly when isGameOver is true.
C33_ScoreBound ==
  \A p \in Peers :
    LET s == gameState[p]
    IN Authoritative(s) =>
         /\ s.scoreLeft <= WINNING_SCORE /\ s.scoreRight <= WINNING_SCORE
         /\ ~(s.scoreLeft = WINNING_SCORE /\ s.scoreRight = WINNING_SCORE)
         /\ (s.scoreLeft = WINNING_SCORE \/ s.scoreRight = WINNING_SCORE) <=> s.isGameOver

\* the HOST has lost 10 : 11: one score at the threshold, the other just below
C33_Witness ==
  /\ gameState["A"].mode = "HOST"
  /\ gameState["A"].scoreLeft = WINNING_SCORE - 1
  /\ gameState["A"].scoreRight = WINNING_SCORE
  /\ gameState["A"].isGameOver

\* the ball of s lies inside the field
InField(s) ==
  /\ s.y >= 0 /\ s.y <= Fx(GAME_HEIGHT - BALL_SIZE)
  /\ s.x >= 0 /\ s.x <= Fx(GAME_WIDTH)

\* C34: on SINGLE and HOST the ball lies inside the field in every state
\* between ticks, 0 <= y <= GAME_HEIGHT - BALL_SIZE and 0 <= x <= GAME_WIDTH;
\* a tick whose ball, after integration and collisions, has its x outside
\* [0, GAME_WIDTH] counts one point and ends with the ball served from the
\* centre, and a tick whose ball stays inside counts none.
C34_BallInField ==
  /\ [](\A p \in Peers : Authoritative(gameState[p]) => InField(gameState[p]))
  /\ [][\A p \in Peers :
          (RunningTick(p) /\ Authoritative(gameState[p])) =>
            LET s == gameState[p]
                c == BeforeScoring(p)
                t == gameState'[p]
                points == (t.scoreLeft + t.scoreRight) - (s.scoreLeft + s.scoreRight)
            IN /\ (c.x < 0 \/ c.x > Fx(GAME_WIDTH)) =>
                    /\ points = 1
                    /\ Served(t, IF c.x < 0 THEN -1 ELSE 1)
               /\ (c.x >= 0 /\ c.x <= Fx(GAME_WIDTH)) =>
                    (points = 0 /\ t.x = c.x /\ t.y = c.y)]_vars

\* a running SINGLE match in which the ball has passed the left edge and has
\* been served from the centre toward the left
C34_Witness ==
  /\ gameState["A"].mode = "SINGLE" /\ Running(gameState["A"])
  /\ gameState["A"].scoreRight >= 1
  /\ Served(gameState["A"], -1)

\* the step is a pointer input of p
LocalInput(p) == \E y \in Pointers(p) : HandleInput(p, y)

\* C35 as stated: a snapshot handled by a CLIENT leaves its paddleRightY,
\* ball.speed, isRunning, isGameOver, winner and role as they are, and the
\* paddleRightY of a CLIENT changes in no step but a pointer input.
C35_Original ==
  /\ [][\A p \in Peers :
          (Receives(p, "STATE") /\ gameState[p].mode = "CLIENT") =>
            LET s == gameState[p]
                t == gameState'[p]
            IN /\ t.paddleRightY = s.paddleRightY /\ t.speed = s.speed
               /\ t.isRunning = s.isRunning /\ t.isGameOver = s.isGameOver
               /\ t.winner = s.winner /\ t.mode = s.mode]_vars
  /\ [][\A p \in Peers :
          ( /\ gameState[p].mode = "CLIENT"
            /\ gameState'[p].paddleRightY # gameState[p].paddleRightY )
          => LocalInput(p)]_vars

\* C35 (amended): a snapshot handled by a CLIENT leaves its paddleRightY,
\* ball.speed, isRunning, isGameOver, winner and role as they are, whatever
\* right paddle offset the snapshot carries; the paddleRightY of a CLIENT
\* changes only in a pointer input and in the start of a match, which centres
\* it, and while its match runs only in a pointer input.
C35_ClientOwnPaddle ==
  /\ [][\A p \in Peers :
          (Receives(p, "STATE") /\ gameState[p].mode = "CLIENT") =>
            LET s == gameState[p]
                t == gameState'[p]
            IN /\ t.paddleRightY = s.paddleRightY /\ t.speed = s.speed
               /\ t.isRunning = s.isRunning /\ t.isGameOver = s.isGameOver
               /\ t.winner = s.winner /\ t.mode = s.mode]_vars
  /\ [][\A p \in Peers :
          ( /\ gameState[p].mode = "CLIENT"
            /\ gameState'[p].paddleRightY # gameState[p].paddleRightY )
          => \/ LocalInput(p)
             \/ /\ ~gameState[p].isRunning /\ StartsMatch(p)
                /\ gameState'[p].paddleRightY = Fx(GAME_HEIGHT) \div 2 - Fx(PADDLE_HEIGHT) \div 2]_vars

\* a running CLIENT that holds its paddle at the bottom has handled a
\* snapshot: it has the scores of the HOST, whose copy of the right paddle
\* is still centred, and its own paddle is where its pointer put it
C35_Witness ==
  /\ gameState["B"].mode = "CLIENT" /\ Running(gameState["B"])
  /\ gameState["B"].paddleRightY = Fx(GAME_HEIGHT - PADDLE_HEIGHT)
  /\ gameState["A"].paddleRightY = Fx(GAME_HEIGHT) \div 2 - Fx(PADDLE_HEIGHT) \div 2
  /\ gameState["B"].scoreLeft + gameState["B"].scoreRight >= 1
  /\ gameState["B"].scoreLeft = gameState["A"].scoreLeft
  /\ gameState["B"].scoreRight = gameState["A"].scoreRight
  /\ chan["B"] = << >>

\* C36: a pointer input changes nothing of the match state but paddleLeftY on
\* SINGLE and HOST and nothing but paddleRightY on CLIENT; a tick on HOST
\* leaves both paddle offsets as they are and a tick on SINGLE leaves
\* paddleLeftY as it is; an INPUT message handled by a HOST sets paddleRightY
\* to its y and leaves the rest of the match state as it is.
C36_PaddleOwnership ==
  [][\A p \in Peers :
       LET s == gameState[p]
           t == gameState'[p]
       IN /\ LocalInput(p) =>
               IF s.mode = "CLIENT"
               THEN t = [s EXCEPT !.paddleRightY = t.paddleRightY]
               ELSE t = [s EXCEPT !.paddleLeftY = t.paddleLeftY]
          /\ (Tick(p) /\ s.mode = "HOST") =>
               (t.paddleLeftY = s.paddleLeftY /\ t.paddleRightY = s.paddleRightY)
          /\ (Tick(p) /\ s.mode = "SINGLE") => t.paddleLeftY = s.paddleLeftY
          /\ (Receives(p, "INPUT") /\ s.mode = "HOST") =>
               t = [s EXCEPT !.paddleRightY = Head(chan[p]).y]]_vars

\* both players have moved their paddles and the HOST has handled the INPUT
\* of the CLIENT: each side holds its own paddle where its pointer put it and
\* the paddle of the other where the network put it
C36_Witness ==
  /\ gameState["A"].mode = "HOST" /\ Running(gameState["A"])
  /\ gameState["B"].mode = "CLIENT" /\ Running(gameState["B"])
  /\ gameState["A"].paddleLeftY = Fx(60) /\ gameState["B"].paddleLeftY = Fx(60)
  /\ gameState["A"].paddleRightY = Fx(GAME_HEIGHT - PADDLE_HEIGHT)
  /\ gameState["B"].paddleRightY = Fx(GAME_HEIGHT - PADDLE_HEIGHT)

\* the tick at hand of p counts a point: its ball passes an edge of the field
Scores(p) == ScoresRight(BeforeScoring(p)) \/ ScoresLeft(BeforeScoring(p))

\* the copies hold the same match state and lifecycle and have sent the same
\* messages in their last frame
CopiesAgree ==
  /\ gameState["A"] = gameState["B"]
  /\ uiState["A"] = uiState["B"]
  /\ chan["A"] = chan["B"]

====
